---------------------------- MODULE Spec2Model ----------------------------
(***************************************************************************)
(* FundAdvisor strategy engine: the signal model, the three strategies     *)
(* and the strategy manager (backend/app/strategies).                      *)
(*                                                                         *)
(* Numbers.  The code computes in IEEE doubles; the model computes in      *)
(* exact rationals <<n, d>> (d > 0, lowest terms), so every comparison     *)
(* against a threshold is the comparison of the real values.               *)
(***************************************************************************)
EXTENDS Integers, Sequences, FiniteSets, TLC

VARIABLES
    strategies,   \* StrategyManager.strategies: insertion-ordered dict, a sequence of [name, strategy]
    pc,           \* position of the call in flight: idle, iterating, done or aborted (left by an
                  \* exception) in the manager; ready, returned or raised in a direct strategy call
    op,           \* the manager operation in flight
    data,         \* the DataFrame handed to the call
    weights,      \* get_consensus_signal: strategy_weights after defaulting
    pending,      \* calculate_all_signals: names still to be visited by the for loop
    signals,      \* calculate_all_signals: the dict built so far, a sequence of [name, signal]
    buckets,      \* get_consensus_signal: buy_weight, sell_weight, hold_weight, total_weight
    log,          \* names reported by the except branch (the print sink)
    ret,          \* value returned by the call (or the exception that left it)
    mutations,    \* number of registry mutations performed
    strategy,     \* the strategy instance under a direct calculate_signal call
    ind,          \* library-computed indicator values of that call
    now,          \* the reading of the wall clock, datetime.now()
    first,        \* the result of the first of two identical direct calls
    args,         \* arguments of the operation in flight
    interleaved,  \* the registry mutation another thread made while the call was in flight
    db            \* the database the portfolio service works on: the funds and holdings tables

vars == <<strategies, pc, op, data, weights, pending, signals, buckets, log, ret, mutations,
         strategy, ind, now, first, args, interleaved, db>>

-----------------------------------------------------------------------------
(* Bounds of the model *)

\* longest enumerated NAV series
MaxLen == 6
\* registry mutations per behaviour
MaxMutations == 1

-----------------------------------------------------------------------------
(* Exact rational arithmetic standing for Python float arithmetic *)

Abs(n) == IF n < 0 THEN -n ELSE n

RECURSIVE GCD(_, _)
GCD(a, b) == IF b = 0 THEN a ELSE GCD(b, a % b)

Frac(n, d) ==
    LET s == IF d < 0 THEN -1 ELSE 1
        g == GCD(Abs(n), Abs(d))
    IN  <<(s * n) \div g, (s * d) \div g>>

R(n) == <<n, 1>>
RNum(x) == x[1]
RDen(x) == x[2]
RAdd(x, y) ==
    LET g == GCD(x[2], y[2])
        l == (x[2] \div g) * y[2]
    IN  Frac(x[1] * (l \div x[2]) + y[1] * (l \div y[2]), l)
RNeg(x) == <<-x[1], x[2]>>
RSub(x, y) == RAdd(x, RNeg(y))
RMul(x, y) ==
    LET a == Frac(x[1], y[2])
        b == Frac(y[1], x[2])
    IN  Frac(a[1] * b[1], a[2] * b[2])
RDiv(x, y) == RMul(x, Frac(y[2], y[1]))
RLt(x, y) == x[1] * y[2] < y[1] * x[2]
RLe(x, y) == x[1] * y[2] <= y[1] * x[2]
RGt(x, y) == RLt(y, x)
RGe(x, y) == RLe(y, x)
RAbs(x) == <<Abs(x[1]), x[2]>>
\* Python's min(a, b) and max(a, b): the first argument unless the second is smaller / larger
RMin(x, y) == IF RLt(y, x) THEN y ELSE x
RMax(x, y) == IF RGt(y, x) THEN y ELSE x
IsRational(x) == x \in Int \X (Nat \ {0})

RECURSIVE SumSeq(_)
SumSeq(s) == IF s = <<>> THEN 0 ELSE s[1] + SumSeq(Tail(s))

RECURSIVE Pow10(_)
Pow10(k) == IF k = 0 THEN 1 ELSE 10 * Pow10(k - 1)

\* <<floor(n * 10^k / d), remainder>> for n >= 0, digit by digit
RECURSIVE ScaledFloor(_, _, _)
ScaledFloor(n, d, k) ==
    IF k = 0 THEN <<n \div d, n % d>>
    ELSE LET p == ScaledFloor(n, d, k - 1)
         IN  <<p[1] * 10 + (p[2] * 10) \div d, (p[2] * 10) % d>>

\* Python's round(x, ndigits): to the nearest multiple of 10^-ndigits, ties to even
Round(x, ndigits) ==
    LET p == ScaledFloor(Abs(x[1]), x[2], ndigits)
        q == IF 2 * p[2] > x[2] \/ (2 * p[2] = x[2] /\ p[1] % 2 = 1) THEN p[1] + 1 ELSE p[1]
    IN  Frac((IF x[1] < 0 THEN -1 ELSE 1) * q, Pow10(ndigits))

\* the last n elements of a sequence: Series.tail(n)
TailN(s, n) ==
    IF n >= Len(s) THEN s
    ELSE IF n <= 0 THEN <<>>
    ELSE SubSeq(s, Len(s) - n + 1, Len(s))

-----------------------------------------------------------------------------
(* Signal model: base_strategy.py *)

SignalType == {"BUY", "SELL", "HOLD"}

\* StrategySignal.__init__: strength = max(0.0, min(1.0, strength))
\* the strength stored as given, without max(0.0, min(1.0, strength))
ClampStrengthNone(strength) == strength

\* a signal whose reason text carries the time of its construction
StrategySignalStamped(signal_type, strength, reason, indicators) ==
    [signal_type |-> signal_type,
     strength    |-> RMax(R(0), RMin(R(1), strength)),
     reason      |-> <<reason, now>>,
     indicators  |-> indicators,
     timestamp   |-> now]

ClampStrength(strength) == RMax(R(0), RMin(R(1), strength))

\* StrategySignal.__init__ with an indicators argument: indicators or {}, and
\* timestamp = timestamp or datetime.now() (no caller passes a timestamp)
StrategySignalWith(signal_type, strength, reason, indicators) ==
    [signal_type |-> signal_type,
     strength    |-> ClampStrength(strength),
     reason      |-> reason,
     indicators  |-> indicators,
     timestamp   |-> now]

\* StrategySignal.__init__ with indicators left at its default None: the empty dict
StrategySignal(signal_type, strength, reason) ==
    StrategySignalWith(signal_type, strength, reason, <<>>)

NoValue == [none |-> TRUE]
Raised(exc) == [raised |-> exc]
IsSignal(x) == DOMAIN x = {"signal_type", "strength", "reason", "indicators", "timestamp"}
IsRaised(x) == DOMAIN x = {"raised"}

InsufficientData == StrategySignal("HOLD", R(0), "insufficient_data")


-----------------------------------------------------------------------------
(* DataFrame and BaseStrategy: base_strategy.py *)

\* A row of the NAV DataFrame. volume is <<v>>, or <<>> for NaN.
Row(date, net_value, volume) == [date |-> date, net_value |-> net_value, volume |-> volume]
DataFrame(columns, rows) == [columns |-> columns, rows |-> rows]
AllColumns == {"date", "net_value", "volume"}

\* DataFrame.empty: an axis of length 0
IsEmpty(df) == Len(df.rows) = 0 \/ df.columns = {}

\* BaseStrategy.__init__
BaseStrategy(cls, name, config) == [cls |-> cls, name |-> name, config |-> config]

\* dict.update: the overrides win, the other defaults stay
Update(default_config, config) == config @@ default_config

\* validate_data: self.config.get('min_data_points', 30)
MinDataPoints(config) ==
    IF "min_data_points" \in DOMAIN config THEN config.min_data_points ELSE 30

\* validate_data with the length test off by one: a frame one row short passes
ValidateDataOffByOne(s, df) ==
    IF IsEmpty(df) THEN FALSE
    ELSE IF ~({"date", "net_value"} \subseteq df.columns) THEN FALSE
    ELSE IF Len(df.rows) + 1 < MinDataPoints(s.config) THEN FALSE
    ELSE TRUE

ValidateData(s, df) ==
    IF IsEmpty(df) THEN FALSE
    ELSE IF ~({"date", "net_value"} \subseteq df.columns) THEN FALSE
    ELSE IF Len(df.rows) < MinDataPoints(s.config) THEN FALSE
    ELSE TRUE

\* data.sort_values('date'): ascending by date (the dates of a series are distinct)
SortValuesByDate(rows) ==
    IF \A j \in 1..(Len(rows) - 1) : rows[j].date < rows[j + 1].date THEN rows
    ELSE
    [i \in 1..Len(rows) |->
        CHOOSE r \in {rows[j] : j \in 1..Len(rows)} :
            Cardinality({j \in 1..Len(rows) : rows[j].date < r.date}) = i - 1]

NetValues(rows) == [i \in 1..Len(rows) |-> rows[i].net_value]

\* Series.rolling(window=period, min_periods=1) validates min_periods <= window
RollingWindowOk(period) == period >= 1

\* a moving average over a centred window (rolling(center=True)): the mean at a point
\* takes in the points that follow it
CalculateMovingAverageCentred(values, period) ==
    [i \in 1..Len(values) |->
        LET back == (period - 1) \div 2
            lo == IF i - back < 1 THEN 1 ELSE i - back
            hi == IF lo + period - 1 > Len(values) THEN Len(values) ELSE lo + period - 1
        IN  Frac(SumSeq(SubSeq(values, lo, hi)), hi - lo + 1)]

\* calculate_moving_average: data.rolling(window=period, min_periods=1).mean()
CalculateMovingAverage(values, period) ==
    [i \in 1..Len(values) |->
        LET lo == IF i - period + 1 < 1 THEN 1 ELSE i - period + 1
        IN  Frac(SumSeq(SubSeq(values, lo, i)), i - lo + 1)]

\* A float that may be NaN: <<>> for NaN, <<x>> for the number x.
NaN == <<>>
Num(x) == <<x>>

\* Series.rolling(window=period).mean() at point i (min_periods = window): NaN until
\* the window is full
RollingMean(terms, i, period) ==
    IF i < period THEN NaN
    ELSE Num(Frac(SumSeq(SubSeq(terms, i - period + 1, i)), period))

\* calculate_rsi(data, period): delta = data.diff(); where() puts 0 where the test
\* fails, the NaN of the first point included; gain / loss is a float division, so a
\* zero loss gives inf under a positive gain and NaN under a zero gain;
\* 100 - 100 / (1 + inf) = 100
CalculateRsi(values, period) ==
    LET n == Len(values)
        delta == [i \in 1..n |-> IF i = 1 THEN 0 ELSE values[i] - values[i - 1]]
        gains == [i \in 1..n |-> IF delta[i] > 0 THEN delta[i] ELSE 0]
        losses == [i \in 1..n |-> IF delta[i] < 0 THEN -delta[i] ELSE 0]
    IN  [i \in 1..n |->
            LET gain == RollingMean(gains, i, period)
                loss == RollingMean(losses, i, period)
            IN  IF gain = NaN \/ loss = NaN THEN NaN
                ELSE IF loss[1] = R(0)
                THEN IF gain[1] = R(0) THEN NaN ELSE Num(R(100))
                ELSE LET rs == RDiv(gain[1], loss[1])
                     IN  Num(RSub(R(100), RDiv(R(100), RAdd(R(1), rs))))]

\* percentile_rank with rank(method='min'): equal values share the lowest rank
PercentileRankMin(x) ==
    IF Len(x) < 2 THEN R(50)
    ELSE LET last == x[Len(x)]
             less == Cardinality({j \in 1..Len(x) : x[j] < last})
         IN  Frac(less * 100, Len(x) - 1)

\* percentile_rank(x) of calculate_percentile_rank: x.rank() gives equal values the
\* average of their ranks, so the rank of the last value is the number of lower values
\* plus (number of values equal to it, itself included, plus 1) / 2
PercentileRank(x) ==
    IF Len(x) < 2 THEN R(50)
    ELSE LET last == x[Len(x)]
             less == Cardinality({j \in 1..Len(x) : x[j] < last})
             equal == Cardinality({j \in 1..Len(x) : x[j] = last})
             rank == RAdd(R(less), Frac(equal + 1, 2))
         IN  RMul(RDiv(RSub(rank, R(1)), R(Len(x) - 1)), R(100))

\* calculate_percentile_rank: data.rolling(window=lookback_days, min_periods=1).apply(...)
CalculatePercentileRank(values, lookback_days) ==
    [i \in 1..Len(values) |->
        LET lo == IF i - lookback_days + 1 < 1 THEN 1 ELSE i - lookback_days + 1
        IN  PercentileRank(SubSeq(values, lo, i))]

-----------------------------------------------------------------------------
(* MACrossStrategy: ma_cross_strategy.py *)

MACrossDefaultConfig ==
    [short_period |-> 5, long_period |-> 20,
     volume_threshold |-> Frac(12, 10), min_data_points |-> 25]

MACrossStrategy(config) ==
    BaseStrategy("MACrossStrategy", "MA_Cross_Strategy", Update(MACrossDefaultConfig, config))

\* 'volume' in data.columns and not data['volume'].isna().all()
HasVolume(df) ==
    /\ "volume" \in df.columns
    /\ \E i \in 1..Len(df.rows) : df.rows[i].volume # <<>>

Volumes(rows) == [i \in 1..Len(rows) |-> rows[i].volume[1]]

\* volume_factor (lines 85-90); the columns modelled hold no NaN or are all NaN
VolumeFactor(df, rows) ==
    IF ~HasVolume(df) THEN R(1)
    ELSE LET vol    == Volumes(rows)
             recent == TailN(vol, 5)
             recent_volume == Frac(SumSeq(recent), Len(recent))
             avg_volume    == Frac(SumSeq(vol), Len(vol))
         IN  IF RGt(avg_volume, R(0))
             THEN RMin(RDiv(recent_volume, avg_volume), R(2))
             ELSE R(1)

\* np.polyfit(x, y, 1)[0] for x = 0..n-1: the least-squares slope
PolyfitSlope(y) ==
    LET n   == Len(y)
        sx  == SumSeq([i \in 1..n |-> i - 1])
        sxx == SumSeq([i \in 1..n |-> (i - 1) * (i - 1)])
        sy  == SumSeq(y)
        sxy == SumSeq([i \in 1..n |-> (i - 1) * y[i]])
    IN  Frac(n * sxy - sx * sy, n * sxx - sx * sx)

\* _calculate_price_trend(prices, period=10), for series of two or more points
CalculatePriceTrend(prices) ==
    LET period == IF Len(prices) < 10 THEN Len(prices) ELSE 10
        recent_prices == TailN(prices, period)
        slope == PolyfitSlope(recent_prices)
        avg_price == Frac(SumSeq(recent_prices), Len(recent_prices))
        normalized_slope == RDiv(RMul(slope, R(period)), avg_price)
    IN  RMax(R(-1), RMin(R(1), RMul(normalized_slope, R(10))))

\* strength on a cross without the volume adjustment
CrossStrengthNoVolume(ma_diff_pct, volume_factor, price_trend, dir) ==
    LET base_strength == RMin(RDiv(RAbs(ma_diff_pct), R(2)), Frac(8, 10))
        trend_adjustment == RMul(RMax(RMul(R(dir), price_trend), R(0)), Frac(3, 10))
    IN  RMin(RAdd(base_strength, trend_adjustment), R(1))

\* strength on a cross (lines 103-109 and 118-124); dir is +1 for a golden cross, -1 for a death cross
CrossStrength(ma_diff_pct, volume_factor, price_trend, dir) ==
    LET base_strength == RMin(RDiv(RAbs(ma_diff_pct), R(2)), Frac(8, 10))
        volume_adjustment == RMul(RSub(volume_factor, R(1)), Frac(2, 10))
        trend_adjustment == RMul(RMax(RMul(R(dir), price_trend), R(0)), Frac(3, 10))
    IN  RMin(RAdd(RAdd(base_strength, volume_adjustment), trend_adjustment), R(1))

\* the persistence strength without its cap of 0.6
PersistenceStrengthUncapped(ma_diff_pct) == RDiv(RAbs(ma_diff_pct), R(5))

\* strength of the persistence signal (lines 135 and 139)
PersistenceStrength(ma_diff_pct) == RMin(RDiv(RAbs(ma_diff_pct), R(5)), Frac(6, 10))

\* golden_cross with a strict test of the previous point
GoldenCrossStrict(prev_short_ma, prev_long_ma, current_short_ma, current_long_ma) ==
    RLt(prev_short_ma, prev_long_ma) /\ RGt(current_short_ma, current_long_ma)

\* golden_cross / death_cross (lines 79-82)
GoldenCross(prev_short_ma, prev_long_ma, current_short_ma, current_long_ma) ==
    RLe(prev_short_ma, prev_long_ma) /\ RGt(current_short_ma, current_long_ma)
DeathCross(prev_short_ma, prev_long_ma, current_short_ma, current_long_ma) ==
    RGe(prev_short_ma, prev_long_ma) /\ RLt(current_short_ma, current_long_ma)

\* lines 95-142: the signal from the averages, the volume factor and the trend
MACrossDecide(prev_short_ma, prev_long_ma, current_short_ma, current_long_ma, volume_factor, price_trend) ==
    LET ma_diff == RSub(current_short_ma, current_long_ma)
        ma_diff_pct == RMul(RDiv(ma_diff, current_long_ma), R(100))
        golden_cross == GoldenCross(prev_short_ma, prev_long_ma, current_short_ma, current_long_ma)
        death_cross == DeathCross(prev_short_ma, prev_long_ma, current_short_ma, current_long_ma)
        decision ==
            IF golden_cross
            THEN <<"BUY", CrossStrength(ma_diff_pct, volume_factor, price_trend, 1), "golden_cross">>
            ELSE IF death_cross
            THEN <<"SELL", CrossStrength(ma_diff_pct, volume_factor, price_trend, -1), "death_cross">>
            ELSE IF RGt(RAbs(ma_diff_pct), R(1))
            THEN IF RGt(ma_diff, R(0))
                 THEN <<"BUY", PersistenceStrength(ma_diff_pct), "short_above_long">>
                 ELSE <<"SELL", PersistenceStrength(ma_diff_pct), "short_below_long">>
            ELSE <<"HOLD", R(0), "averages_converged">>
        indicators ==
            [short_ma      |-> Round(current_short_ma, 4),
             long_ma       |-> Round(current_long_ma, 4),
             ma_diff_pct   |-> Round(ma_diff_pct, 4),
             volume_factor |-> Round(volume_factor, 2),
             price_trend   |-> Round(price_trend, 4),
             golden_cross  |-> golden_cross,
             death_cross   |-> death_cross]
    IN  StrategySignalWith(decision[1], decision[2], decision[3], indicators)

\* MACrossStrategy.calculate_signal: a StrategySignal, or the exception that leaves it
MACrossCalculateSignal(s, df) ==
    IF ~ValidateData(s, df) THEN InsufficientData
    ELSE IF ~RollingWindowOk(s.config.short_period) \/ ~RollingWindowOk(s.config.long_period)
    THEN Raised("ValueError")
    ELSE LET rows     == SortValuesByDate(df.rows)
             prices   == NetValues(rows)
             short_ma == CalculateMovingAverage(prices, s.config.short_period)
             long_ma  == CalculateMovingAverage(prices, s.config.long_period)
             n        == Len(prices)
             current_short_ma == short_ma[n]
             current_long_ma  == long_ma[n]
             prev_short_ma == IF n >= 2 THEN short_ma[n - 1] ELSE current_short_ma
             prev_long_ma  == IF n >= 2 THEN long_ma[n - 1] ELSE current_long_ma
         IN  MACrossDecide(prev_short_ma, prev_long_ma, current_short_ma, current_long_ma,
                           VolumeFactor(df, rows), CalculatePriceTrend(prices))

-----------------------------------------------------------------------------
(* TrendFollowingStrategy: trend_following_strategy.py *)

TrendFollowingDefaultConfig ==
    [rsi_period |-> 14, rsi_oversold |-> 30, rsi_overbought |-> 70,
     macd_fast |-> 12, macd_slow |-> 26, macd_signal |-> 9,
     bb_period |-> 20, bb_std |-> 2, min_data_points |-> 30]

TrendFollowingStrategy(config) ==
    BaseStrategy("TrendFollowingStrategy", "Trend_Following_Strategy",
                 Update(TrendFollowingDefaultConfig, config))

SubSignal(type, strength, reason) == [type |-> type, strength |-> strength, reason |-> reason]

\* _analyze_rsi_signal
AnalyzeRsiSignal(config, rsi) ==
    IF RLe(rsi, R(config.rsi_oversold))
    THEN SubSignal("BUY", RDiv(RSub(R(config.rsi_oversold), rsi), R(config.rsi_oversold)),
                   "rsi_oversold")
    ELSE IF RGe(rsi, R(config.rsi_overbought))
    THEN SubSignal("SELL", RDiv(RSub(rsi, R(config.rsi_overbought)),
                                R(100 - config.rsi_overbought)), "rsi_overbought")
    ELSE IF RLt(rsi, R(45))
    THEN SubSignal("BUY", RMul(RDiv(RSub(R(45), rsi), R(15)), Frac(3, 10)), "rsi_leans_oversold")
    ELSE IF RGt(rsi, R(55))
    THEN SubSignal("SELL", RMul(RDiv(RSub(rsi, R(55)), R(15)), Frac(3, 10)), "rsi_leans_overbought")
    ELSE SubSignal("HOLD", R(0), "rsi_neutral")

\* _analyze_macd_signal
AnalyzeMacdSignal(current_macd, current_signal, prev_macd, prev_signal, histogram) ==
    LET macd_cross_up   == RLe(prev_macd, prev_signal) /\ RGt(current_macd, current_signal)
        macd_cross_down == RGe(prev_macd, prev_signal) /\ RLt(current_macd, current_signal)
        cross_strength  == RAdd(RMin(RMul(RAbs(histogram), R(1000)), Frac(8, 10)), Frac(2, 10))
    IN  IF macd_cross_up THEN SubSignal("BUY", cross_strength, "macd_cross_up")
        ELSE IF macd_cross_down THEN SubSignal("SELL", cross_strength, "macd_cross_down")
        ELSE IF RGt(current_macd, current_signal)
        THEN IF RGt(histogram, R(0))
             THEN SubSignal("BUY", RMin(RMul(histogram, R(500)), Frac(6, 10)), "macd_above_signal")
             ELSE SubSignal("HOLD", R(0), "macd_above_signal_fading")
        ELSE IF RLt(histogram, R(0))
             THEN SubSignal("SELL", RMin(RMul(RAbs(histogram), R(500)), Frac(6, 10)),
                            "macd_below_signal")
             ELSE SubSignal("HOLD", R(0), "macd_below_signal_steadying")

\* _analyze_bollinger_signal
AnalyzeBollingerSignal(price, upper, middle, lower) ==
    LET bb_width == RSub(upper, lower)
        bb_position == IF RGt(bb_width, R(0)) THEN RDiv(RSub(price, lower), bb_width)
                       ELSE Frac(1, 2)
    IN  IF RLe(price, lower)
        THEN SubSignal("BUY",
                 RAdd(RMin(RMul(RDiv(RSub(lower, price), lower), R(100)), Frac(8, 10)),
                      Frac(2, 10)), "price_at_lower_band")
        ELSE IF RGe(price, upper)
        THEN SubSignal("SELL",
                 RAdd(RMin(RMul(RDiv(RSub(price, upper), upper), R(100)), Frac(8, 10)),
                      Frac(2, 10)), "price_at_upper_band")
        ELSE IF RLt(bb_position, Frac(2, 10))
        THEN SubSignal("BUY", RMul(RSub(Frac(2, 10), bb_position), R(2)), "price_near_lower_band")
        ELSE IF RGt(bb_position, Frac(8, 10))
        THEN SubSignal("SELL", RMul(RSub(bb_position, Frac(8, 10)), R(2)), "price_near_upper_band")
        ELSE SubSignal("HOLD", R(0), "price_mid_band")

\* _calculate_trend_strength, from the current price, the 5/10/20 averages and
\* the price ten points back (series of ten or more points)
CalculateTrendStrength(current_price, current_ma5, current_ma10, current_ma20, price_10) ==
    LET alignment_score ==
            IF RGt(current_price, current_ma5) /\ RGt(current_ma5, current_ma10)
               /\ RGt(current_ma10, current_ma20) THEN R(1)
            ELSE IF RLt(current_price, current_ma5) /\ RLt(current_ma5, current_ma10)
               /\ RLt(current_ma10, current_ma20) THEN R(-1)
            ELSE RAdd(RAdd(IF RGt(current_price, current_ma5) THEN Frac(4, 10) ELSE Frac(-4, 10),
                           IF RGt(current_ma5, current_ma10) THEN Frac(3, 10) ELSE Frac(-3, 10)),
                      IF RGt(current_ma10, current_ma20) THEN Frac(3, 10) ELSE Frac(-3, 10))
        momentum == RDiv(RSub(current_price, price_10), price_10)
        trend_strength == RAdd(RMul(alignment_score, Frac(7, 10)),
                               RMul(RMul(momentum, R(10)), Frac(3, 10)))
    IN  RMax(R(-1), RMin(R(1), trend_strength))

SelectType(sigs, type) == SelectSeq(sigs, LAMBDA x : x.type = type)

RECURSIVE SumStrength(_)
SumStrength(sigs) ==
    IF sigs = <<>> THEN R(0) ELSE RAdd(sigs[1].strength, SumStrength(Tail(sigs)))

\* _synthesize_signals with the single-signal threshold tested on the strength before
\* the trend adjustment
SynthesizeSignalsRawThreshold(rsi_signal, macd_signal, bb_signal, trend_strength) ==
    LET sigs == <<rsi_signal, macd_signal, bb_signal>>
        buy_signals  == SelectType(sigs, "BUY")
        sell_signals == SelectType(sigs, "SELL")
        buy_sum  == SumStrength(buy_signals)
        sell_sum == SumStrength(sell_signals)
        buy_strength  == IF RGt(trend_strength, Frac(3, 10))
                         THEN RMul(buy_sum, Frac(12, 10)) ELSE buy_sum
        sell_strength == IF ~RGt(trend_strength, Frac(3, 10)) /\ RLt(trend_strength, Frac(-3, 10))
                         THEN RMul(sell_sum, Frac(12, 10)) ELSE sell_sum
    IN  IF Len(buy_signals) >= 2 \/ (Len(buy_signals) = 1 /\ RGt(buy_sum, Frac(6, 10)))
        THEN <<"BUY", RMin(RDiv(buy_strength, R(Len(buy_signals))), R(1)), "buy_signals">>
        ELSE IF Len(sell_signals) >= 2
                \/ (Len(sell_signals) = 1 /\ RGt(sell_sum, Frac(6, 10)))
        THEN <<"SELL", RMin(RDiv(sell_strength, R(Len(sell_signals))), R(1)), "sell_signals">>
        ELSE <<"HOLD", R(0), "signals_too_weak">>

\* _synthesize_signals: <<signal type, strength, reason>>
SynthesizeSignals(rsi_signal, macd_signal, bb_signal, trend_strength) ==
    LET sigs == <<rsi_signal, macd_signal, bb_signal>>
        buy_signals  == SelectType(sigs, "BUY")
        sell_signals == SelectType(sigs, "SELL")
        buy_sum  == SumStrength(buy_signals)
        sell_sum == SumStrength(sell_signals)
        buy_strength  == IF RGt(trend_strength, Frac(3, 10))
                         THEN RMul(buy_sum, Frac(12, 10)) ELSE buy_sum
        sell_strength == IF ~RGt(trend_strength, Frac(3, 10)) /\ RLt(trend_strength, Frac(-3, 10))
                         THEN RMul(sell_sum, Frac(12, 10)) ELSE sell_sum
    IN  IF Len(buy_signals) >= 2 \/ (Len(buy_signals) = 1 /\ RGt(buy_strength, Frac(6, 10)))
        THEN <<"BUY", RMin(RDiv(buy_strength, R(Len(buy_signals))), R(1)), "buy_signals">>
        ELSE IF Len(sell_signals) >= 2
                \/ (Len(sell_signals) = 1 /\ RGt(sell_strength, Frac(6, 10)))
        THEN <<"SELL", RMin(RDiv(sell_strength, R(Len(sell_signals))), R(1)), "sell_signals">>
        ELSE IF Len(buy_signals) = Len(sell_signals) /\ Len(buy_signals) > 0
        THEN <<"HOLD", R(0), "signals_conflict">>
        ELSE IF \E i \in 1..3 : RGt(sigs[i].strength, R(0))
        THEN <<"HOLD", R(0), "signals_too_weak">>
        ELSE <<"HOLD", R(0), "all_neutral">>

\* lines 74-101: the sub-signals and the trend strength from the indicator values
\* of the last two points; i.rsi is <<>> where the library yields NaN
TrendFollowingSubSignals(s, i) ==
    LET current_rsi == IF i.rsi = <<>> THEN R(50) ELSE i.rsi[1]
    IN  [rsi  |-> AnalyzeRsiSignal(s.config, current_rsi),
         macd |-> AnalyzeMacdSignal(i.macd, i.signal, i.prev_macd, i.prev_signal,
                                    RSub(i.macd, i.signal)),
         bb   |-> AnalyzeBollingerSignal(i.price, i.upper, i.ma20, i.lower),
         trend_strength |-> CalculateTrendStrength(i.price, i.ma5, i.ma10, i.ma20, i.price_10)]

\* bb_position (lines 117-118): numpy float division, so bands of zero width give
\* nan or an infinity instead of an exception; NotFinite stands for those
NotFinite == "not_finite"
BandPosition(price, upper, lower) ==
    IF upper = lower THEN NotFinite
    ELSE Round(RMul(RDiv(RSub(price, lower), RSub(upper, lower)), R(100)), 2)

\* TrendFollowingStrategy.calculate_signal; of the indicators dict, price_change_5d and
\* volatility (functions of the series alone) are left out
TrendFollowingCalculateSignal(s, df, i) ==
    IF ~ValidateData(s, df) THEN InsufficientData
    ELSE LET sub == TrendFollowingSubSignals(s, i)
             syn == SynthesizeSignals(sub.rsi, sub.macd, sub.bb, sub.trend_strength)
             indicators ==
                 [rsi            |-> Round(IF i.rsi = <<>> THEN R(50) ELSE i.rsi[1], 2),
                  macd           |-> Round(i.macd, 6),
                  macd_signal    |-> Round(i.signal, 6),
                  macd_histogram |-> Round(RSub(i.macd, i.signal), 6),
                  bb_upper       |-> Round(i.upper, 4),
                  bb_middle      |-> Round(i.ma20, 4),
                  bb_lower       |-> Round(i.lower, 4),
                  bb_position    |-> BandPosition(i.price, i.upper, i.lower),
                  trend_strength |-> Round(sub.trend_strength, 4)]
         IN  StrategySignalWith(syn[1], syn[2], syn[3], indicators)

-----------------------------------------------------------------------------
(* DynamicDCAStrategy: dynamic_dca_strategy.py *)

DynamicDCADefaultConfig ==
    [low_percentile |-> 25, high_percentile |-> 75, lookback_days |-> 252,
     min_data_points |-> 60, pe_weight |-> Frac(4, 10), pb_weight |-> Frac(3, 10),
     price_weight |-> Frac(3, 10)]

DynamicDCAStrategy(config) ==
    BaseStrategy("DynamicDCAStrategy", "Dynamic_DCA_Strategy",
                 Update(DynamicDCADefaultConfig, config))

\* _generate_signal with the two zone tests strict: a composite on a threshold falls
\* into the neutral zone
GenerateSignalStrictZones(config, composite_percentile, market_sentiment, trend_factor) ==
    LET low_threshold  == R(config.low_percentile)
        high_threshold == R(config.high_percentile)
        mid_point == RDiv(RAdd(low_threshold, high_threshold), R(2))
    IN  IF RLt(composite_percentile, low_threshold)
        THEN LET base_strength ==
                     RAdd(RMul(RDiv(RSub(low_threshold, composite_percentile), low_threshold),
                               Frac(8, 10)), Frac(2, 10))
                 sentiment_adjustment == RMul(RMax(RNeg(market_sentiment), R(0)), Frac(2, 10))
                 trend_adjustment == RMul(RMax(RNeg(trend_factor), R(0)), Frac(1, 10))
             IN  <<"BUY", RMin(RAdd(RAdd(base_strength, sentiment_adjustment),
                                    trend_adjustment), R(1)), "valuation_low">>
        ELSE IF RGt(composite_percentile, high_threshold)
        THEN LET base_strength ==
                     RAdd(RMul(RDiv(RSub(composite_percentile, high_threshold),
                                    RSub(R(100), high_threshold)), Frac(8, 10)), Frac(2, 10))
                 sentiment_adjustment == RMul(RMax(market_sentiment, R(0)), Frac(2, 10))
                 trend_adjustment == RMul(RMax(trend_factor, R(0)), Frac(1, 10))
             IN  <<"SELL", RMin(RAdd(RAdd(base_strength, sentiment_adjustment),
                                     trend_adjustment), R(1)), "valuation_high">>
        ELSE LET weak ==
                     IF RLt(composite_percentile, mid_point)
                     THEN <<"BUY", RMul(RDiv(RSub(mid_point, composite_percentile),
                                             RSub(mid_point, low_threshold)), Frac(5, 10)),
                            "valuation_lowish">>
                     ELSE <<"SELL", RMul(RDiv(RSub(composite_percentile, mid_point),
                                              RSub(high_threshold, mid_point)), Frac(5, 10)),
                            "valuation_highish">>
             IN  IF RLt(weak[2], Frac(2, 10)) THEN <<"HOLD", R(0), "valuation_neutral">>
                 ELSE weak

\* _generate_signal without the override of a weak neutral-zone signal to HOLD
GenerateSignalNoOverride(config, composite_percentile, market_sentiment, trend_factor) ==
    LET low_threshold  == R(config.low_percentile)
        high_threshold == R(config.high_percentile)
        mid_point == RDiv(RAdd(low_threshold, high_threshold), R(2))
    IN  IF RLe(composite_percentile, low_threshold)
        THEN LET base_strength ==
                     RAdd(RMul(RDiv(RSub(low_threshold, composite_percentile), low_threshold),
                               Frac(8, 10)), Frac(2, 10))
                 sentiment_adjustment == RMul(RMax(RNeg(market_sentiment), R(0)), Frac(2, 10))
                 trend_adjustment == RMul(RMax(RNeg(trend_factor), R(0)), Frac(1, 10))
             IN  <<"BUY", RMin(RAdd(RAdd(base_strength, sentiment_adjustment),
                                    trend_adjustment), R(1)), "valuation_low">>
        ELSE IF RGe(composite_percentile, high_threshold)
        THEN LET base_strength ==
                     RAdd(RMul(RDiv(RSub(composite_percentile, high_threshold),
                                    RSub(R(100), high_threshold)), Frac(8, 10)), Frac(2, 10))
                 sentiment_adjustment == RMul(RMax(market_sentiment, R(0)), Frac(2, 10))
                 trend_adjustment == RMul(RMax(trend_factor, R(0)), Frac(1, 10))
             IN  <<"SELL", RMin(RAdd(RAdd(base_strength, sentiment_adjustment),
                                     trend_adjustment), R(1)), "valuation_high">>
        ELSE LET weak ==
                     IF RLt(composite_percentile, mid_point)
                     THEN <<"BUY", RMul(RDiv(RSub(mid_point, composite_percentile),
                                             RSub(mid_point, low_threshold)), Frac(5, 10)),
                            "valuation_lowish">>
                     ELSE <<"SELL", RMul(RDiv(RSub(composite_percentile, mid_point),
                                              RSub(high_threshold, mid_point)), Frac(5, 10)),
                            "valuation_highish">>
             IN  weak

\* _generate_signal with the weak neutral-zone signal turned into a HOLD that keeps
\* its strength
GenerateSignalHoldKeepsStrength(config, composite_percentile, market_sentiment, trend_factor) ==
    LET weak == GenerateSignalNoOverride(config, composite_percentile, market_sentiment,
                                         trend_factor)
    IN  IF weak[3] \in {"valuation_lowish", "valuation_highish"} /\ RLt(weak[2], Frac(2, 10))
        THEN <<"HOLD", weak[2], "valuation_neutral">>
        ELSE weak

\* _generate_signal: <<signal type, strength, reason>>
GenerateSignal(config, composite_percentile, market_sentiment, trend_factor) ==
    LET low_threshold  == R(config.low_percentile)
        high_threshold == R(config.high_percentile)
        mid_point == RDiv(RAdd(low_threshold, high_threshold), R(2))
    IN  IF RLe(composite_percentile, low_threshold)
        THEN LET base_strength ==
                     RAdd(RMul(RDiv(RSub(low_threshold, composite_percentile), low_threshold),
                               Frac(8, 10)), Frac(2, 10))
                 sentiment_adjustment == RMul(RMax(RNeg(market_sentiment), R(0)), Frac(2, 10))
                 trend_adjustment == RMul(RMax(RNeg(trend_factor), R(0)), Frac(1, 10))
             IN  <<"BUY", RMin(RAdd(RAdd(base_strength, sentiment_adjustment),
                                    trend_adjustment), R(1)), "valuation_low">>
        ELSE IF RGe(composite_percentile, high_threshold)
        THEN LET base_strength ==
                     RAdd(RMul(RDiv(RSub(composite_percentile, high_threshold),
                                    RSub(R(100), high_threshold)), Frac(8, 10)), Frac(2, 10))
                 sentiment_adjustment == RMul(RMax(market_sentiment, R(0)), Frac(2, 10))
                 trend_adjustment == RMul(RMax(trend_factor, R(0)), Frac(1, 10))
             IN  <<"SELL", RMin(RAdd(RAdd(base_strength, sentiment_adjustment),
                                     trend_adjustment), R(1)), "valuation_high">>
        ELSE LET weak ==
                     IF RLt(composite_percentile, mid_point)
                     THEN <<"BUY", RMul(RDiv(RSub(mid_point, composite_percentile),
                                             RSub(mid_point, low_threshold)), Frac(5, 10)),
                            "valuation_lowish">>
                     ELSE <<"SELL", RMul(RDiv(RSub(composite_percentile, mid_point),
                                              RSub(high_threshold, mid_point)), Frac(5, 10)),
                            "valuation_highish">>
             IN  IF RLt(weak[2], Frac(2, 10)) THEN <<"HOLD", R(0), "valuation_neutral">>
                 ELSE weak

\* (series < current).sum() / len(series) * 100
PercentBelow(series, current) ==
    Frac(Cardinality({j \in 1..Len(series) : RLt(series[j], current)}) * 100, Len(series))

\* min of the window of `window` values ending at point k (min_periods=1)
RollingMin(values, k, window) ==
    LET lo == IF k - window + 1 < 1 THEN 1 ELSE k - window + 1
        win == {values[j] : j \in lo..k}
    IN  CHOOSE m \in win : \A x \in win : m <= x

\* _calculate_price_percentile
CalculatePricePercentile(config, prices) ==
    LET n == Len(prices)
        lookback_days == IF config.lookback_days < n THEN config.lookback_days ELSE n
        historical_prices == TailN(prices, lookback_days)
    IN  PercentBelow([j \in 1..lookback_days |-> R(historical_prices[j])], R(prices[n]))

\* _calculate_valuation_metrics: pe_percentile and pb_percentile
CalculateValuationMetrics(config, prices) ==
    LET n == Len(prices)
        long_ma == CalculateMovingAverage(prices, 60)
        current_pe_proxy == RDiv(R(prices[n]), long_ma[n])
        pe_lookback == IF config.lookback_days < n - 60 THEN config.lookback_days ELSE n - 60
        historical_pe == [j \in 1..pe_lookback |->
                             RDiv(R(prices[n - pe_lookback + j]), long_ma[n - pe_lookback + j])]
        pb_lookback == IF config.lookback_days < n THEN config.lookback_days ELSE n
        historical_low == RollingMin(prices, n, pb_lookback)
        current_pb_proxy == Frac(prices[n], historical_low)
        historical_pb == [j \in 1..n |-> Frac(prices[j], RollingMin(prices, j, 30))]
    IN  [pe_percentile |-> IF pe_lookback > 30 THEN PercentBelow(historical_pe, current_pe_proxy)
                           ELSE R(50),
         pb_percentile |-> IF n > 30 THEN PercentBelow(historical_pb, current_pb_proxy)
                           ELSE R(50)]

\* _calculate_composite_percentile
CalculateCompositePercentile(config, price_percentile, valuation_metrics) ==
    RAdd(RAdd(RMul(price_percentile, config.price_weight),
              RMul(valuation_metrics.pe_percentile, config.pe_weight)),
         RMul(valuation_metrics.pb_percentile, config.pb_weight))

\* _calculate_trend_factor
CalculateTrendFactor(prices) ==
    IF Len(prices) < 20 THEN R(0)
    ELSE LET n == Len(prices)
             ma_5  == Frac(SumSeq(TailN(prices, 5)), 5)
             ma_20 == Frac(SumSeq(TailN(prices, 20)), 20)
             current_price == R(prices[n])
             trend_5  == RDiv(RSub(current_price, ma_5), ma_5)
             trend_20 == RDiv(RSub(current_price, ma_20), ma_20)
             trend_factor == RMul(RAdd(RMul(trend_5, Frac(6, 10)), RMul(trend_20, Frac(4, 10))),
                                  R(10))
         IN  RMax(R(-1), RMin(R(1), trend_factor))

\* lines 58-69 and 245: the composite percentile, the market sentiment and the trend
\* factor of the call. The sentiment (a standard deviation and a skewness) comes with
\* i; the other two come with i as well, or are computed from the series when i
\* carries the sentiment only
DynamicDCAInputs(s, df, i) ==
    IF "composite_percentile" \in DOMAIN i THEN i
    ELSE LET prices == NetValues(SortValuesByDate(df.rows))
         IN  [composite_percentile |->
                  CalculateCompositePercentile(s.config,
                      CalculatePricePercentile(s.config, prices),
                      CalculateValuationMetrics(s.config, prices)),
              market_sentiment |-> i.market_sentiment,
              trend_factor |-> CalculateTrendFactor(prices)]

\* DynamicDCAStrategy.calculate_signal; of the indicators dict, the composite percentile,
\* the market sentiment and the current price are kept
DynamicDCACalculateSignal(s, df, i) ==
    IF ~ValidateData(s, df) THEN InsufficientData
    ELSE LET prices == NetValues(SortValuesByDate(df.rows))
             in == DynamicDCAInputs(s, df, i)
             g == GenerateSignal(s.config, in.composite_percentile, in.market_sentiment,
                                 in.trend_factor)
             indicators ==
                 [composite_percentile |-> Round(in.composite_percentile, 2),
                  market_sentiment     |-> Round(in.market_sentiment, 4),
                  current_price        |-> Round(R(prices[Len(prices)]), 4)]
         IN  StrategySignalWith(g[1], g[2], g[3], indicators)

-----------------------------------------------------------------------------
(* Inputs of a direct strategy.calculate_signal(data) call *)

\* NAV values of the enumerated series
Prices == {100, 101, 104}

Reverse(s) == [i \in 1..Len(s) |-> s[Len(s) + 1 - i]]

\* the volume column of row i of n under a pattern
VolumeOf(pattern, i, n) ==
    CASE pattern = "flat"    -> <<2>>
      [] pattern = "zero"    -> <<0>>
      [] pattern = "nan"     -> <<>>
      [] pattern = "fading"  -> IF i = 1 THEN <<50>> ELSE <<1>>
      [] pattern = "surging" -> IF i = 1 THEN <<1>> ELSE <<5>>

RowsOf(values, pattern) ==
    [i \in 1..Len(values) |-> Row(i, values[i], VolumeOf(pattern, i, Len(values)))]

\* the frames built on one series of values: dates ascending or descending,
\* with and without the optional and the required columns
FramesOf(values) ==
    {DataFrame(AllColumns, RowsOf(values, p)) : p \in {"flat", "zero", "nan", "fading", "surging"}}
    \cup {DataFrame(AllColumns, Reverse(RowsOf(values, "flat"))),
          DataFrame({"date", "net_value"}, RowsOf(values, "flat")),
          DataFrame({"net_value", "volume"}, RowsOf(values, "flat")),
          DataFrame({"date", "volume"}, RowsOf(values, "flat"))}

\* a frame of n rows with every column; in a TrendFollowing or DynamicDCA call the
\* numbers of the series are carried by ind, the frame by its columns and length
FlatFrame(n) == DataFrame(AllColumns, RowsOf([i \in 1..n |-> 100], "flat"))

\* frames around the validation limits of strategy s
FramesAround(s) ==
    LET m == MinDataPoints(s.config)
    IN  {FlatFrame(0), FlatFrame(m - 1), FlatFrame(m),
         DataFrame({"net_value", "volume"}, FlatFrame(m).rows),
         DataFrame({"date", "volume"}, FlatFrame(m).rows)}


\* series that rise or fall by several percent a point, and one that stays level
SteepSeries ==
    {<<100, 110, 120, 130>>, <<130, 120, 110, 100>>, <<100, 103, 106, 109, 112>>,
     <<112, 109, 106, 103, 100>>, <<100, 100, 100, 100>>}

\* configurations handed to MACrossStrategy(config): short periods, so that the
\* enumerated series are long enough; the defaults; a window of 0
ShortPeriodsConfig == [short_period |-> 2, long_period |-> 3, min_data_points |-> 4]
MACrossConfigs == {<<>>, [short_period |-> 0, long_period |-> 3, min_data_points |-> 4]}

\* price, averages and the price ten points back, in four market regimes
TrendRegimes ==
    {[price |-> R(100), ma5 |-> R(99),  ma10 |-> R(98),  ma20 |-> R(97),  price_10 |-> R(96)],
     [price |-> R(100), ma5 |-> R(101), ma10 |-> R(102), ma20 |-> R(103), price_10 |-> R(104)],
     [price |-> R(100), ma5 |-> R(101), ma10 |-> R(99),  ma20 |-> R(100), price_10 |-> R(100)],
     [price |-> R(100), ma5 |-> R(100), ma10 |-> R(100), ma20 |-> R(100), price_10 |-> R(100)]}

IsFlat(g) == g.ma5 = g.price /\ g.ma10 = g.price /\ g.ma20 = g.price /\ g.price_10 = g.price

\* bb_std times the rolling standard deviation: zero exactly on a flat window
BandHalfWidths(g) == IF IsFlat(g) THEN {R(0)} ELSE {R(2), R(4), R(10)}

RsiValues == {<<>>} \cup {<<R(v)>> : v \in {10, 14, 30, 40, 50, 60, 70, 86, 90}}
MacdValues == {Frac(v, 10000) : v \in {-12, -5, 0, 5, 12}}
PrevMacdValues == {Frac(v, 10000) : v \in {-5, 0, 5}}
MacdSignalValues == {Frac(v, 10000) : v \in {0, 2}}

RegimeBands == UNION {{<<g, h>> : h \in BandHalfWidths(g)} : g \in TrendRegimes}

\* indicator values of the last two points as the pandas calls of lines 60-89 yield them
TrendFollowingIndicators ==
    {[rsi |-> r, macd |-> m, signal |-> sg, prev_macd |-> pm, prev_signal |-> R(0),
      price |-> gb[1].price, ma5 |-> gb[1].ma5, ma10 |-> gb[1].ma10, ma20 |-> gb[1].ma20,
      price_10 |-> gb[1].price_10,
      upper |-> RAdd(gb[1].ma20, gb[2]), lower |-> RSub(gb[1].ma20, gb[2])] :
        r \in RsiValues, m \in MacdValues, sg \in MacdSignalValues, pm \in PrevMacdValues,
        gb \in RegimeBands}

\* composite percentile, market sentiment and trend factor of a DynamicDCA call
DynamicDCAIndicators ==
    {[composite_percentile |-> R(c), market_sentiment |-> Frac(m, 2), trend_factor |-> Frac(t, 2)] :
        c \in {0, 10, 25, 30, 40, 45, 50, 55, 60, 70, 75, 90, 100},
        m \in {-2, -1, 0, 1, 2}, t \in {-2, 0, 1, 2}}

\* strictly monotone series of 300 points: a steady rise, a rise that slows down, a
\* rise that speeds up, a steady rise ending in a jump; and their mirror images
MonotoneShapes == {"steady", "slowing", "speeding", "final_jump"}
Rising(shape, i) ==
    CASE shape = "steady"     -> i
      [] shape = "slowing"    -> IF i <= 150 THEN 2 * i ELSE i + 150
      [] shape = "speeding"   -> IF i <= 150 THEN i ELSE 2 * i - 150
      [] shape = "final_jump" -> IF i < 300 THEN i ELSE 450
MonotoneSeries ==
    {[i \in 1..300 |-> Rising(shape, i)] : shape \in MonotoneShapes}
    \cup {[i \in 1..300 |-> 451 - Rising(shape, i)] : shape \in MonotoneShapes}
MonotoneFrames == {DataFrame(AllColumns, RowsOf(values, "flat")) : values \in MonotoneSeries}

\* market sentiment values of a call whose other inputs are computed from the series
SentimentValues == {[market_sentiment |-> R(m)] : m \in {-1, 0, 1}}

NoManager ==
    /\ strategies = <<>>
    /\ weights = NoValue
    /\ pending = <<>>
    /\ signals = <<>>
    /\ buckets = NoValue
    /\ log = {}
    /\ mutations = 0
    /\ now = 0
    /\ first = NoValue
    /\ args = NoValue
    /\ interleaved = NoValue
    /\ db = NoValue

InitMACross ==
    /\ pc = "ready"
    /\ op = "strategy.calculate_signal"
    /\ \/ /\ strategy = MACrossStrategy(ShortPeriodsConfig)
          /\ \/ \E n \in 0..MaxLen : \E values \in [1..n -> Prices] : data \in FramesOf(values)
             \/ data \in {DataFrame(AllColumns, RowsOf(values, "flat")) : values \in SteepSeries}
       \/ strategy \in {MACrossStrategy(c) : c \in MACrossConfigs} /\ data \in FramesAround(strategy)
    /\ ind = NoValue
    /\ ret = NoValue
    /\ NoManager

InitTrendFollowing ==
    /\ pc = "ready"
    /\ op = "strategy.calculate_signal"
    /\ strategy = TrendFollowingStrategy(<<>>)
    /\ data \in FramesAround(strategy)
    /\ ind \in IF ValidateData(strategy, data) THEN TrendFollowingIndicators ELSE {NoValue}
    /\ ret = NoValue
    /\ NoManager

InitDynamicDCA ==
    /\ pc = "ready"
    /\ op = "strategy.calculate_signal"
    /\ strategy = DynamicDCAStrategy(<<>>)
    /\ \/ /\ data \in FramesAround(strategy)
          /\ ind \in IF ValidateData(strategy, data) THEN DynamicDCAIndicators ELSE {NoValue}
       \/ /\ data \in MonotoneFrames
          /\ ind \in SentimentValues
    /\ ret = NoValue
    /\ NoManager

\* the call returns its signal, or is left by the exception
Outcome(r) == IF IsRaised(r) THEN "raised" ELSE "returned"

\* MACrossStrategy.calculate_signal sorting the caller's frame in place
\* (data.sort_values('date', inplace=True)) instead of sorting a copy
CallMACrossSortingInPlace ==
    /\ pc = "ready"
    /\ strategy.cls = "MACrossStrategy"
    /\ ret' = MACrossCalculateSignal(strategy, data)
    /\ pc' = Outcome(ret')
    /\ data' = IF ValidateData(strategy, data)
               THEN [data EXCEPT !.rows = SortValuesByDate(@)]
               ELSE data
    /\ UNCHANGED <<strategies, op, weights, pending, signals, buckets, log, mutations,
                   strategy, ind, now, first, args, interleaved, db>>

CallMACross ==
    /\ pc = "ready"
    /\ strategy.cls = "MACrossStrategy"
    /\ ret' = MACrossCalculateSignal(strategy, data)
    /\ pc' = Outcome(ret')
    /\ UNCHANGED <<strategies, op, data, weights, pending, signals, buckets, log, mutations,
                   strategy, ind, now, first, args, interleaved, db>>

CallTrendFollowing ==
    /\ pc = "ready"
    /\ strategy.cls = "TrendFollowingStrategy"
    /\ ret' = TrendFollowingCalculateSignal(strategy, data, ind)
    /\ pc' = Outcome(ret')
    /\ UNCHANGED <<strategies, op, data, weights, pending, signals, buckets, log, mutations,
                   strategy, ind, now, first, args, interleaved, db>>

CallDynamicDCA ==
    /\ pc = "ready"
    /\ strategy.cls = "DynamicDCAStrategy"
    /\ ret' = DynamicDCACalculateSignal(strategy, data, ind)
    /\ pc' = Outcome(ret')
    /\ UNCHANGED <<strategies, op, data, weights, pending, signals, buckets, log, mutations,
                   strategy, ind, now, first, args, interleaved, db>>

\* readings of the wall clock
ClockReadings == {0, 1}

\* time passes between the return of a call and the next call
Tick ==
    /\ op = "strategy.calculate_signal"
    /\ pc = "returned"
    /\ first = NoValue
    /\ now + 1 \in ClockReadings
    /\ now' = now + 1
    /\ UNCHANGED <<strategies, pc, op, data, weights, pending, signals, buckets, log, ret,
                   mutations, strategy, ind, first, args, interleaved, db>>

\* strategy.calculate_signal(data) by the class of the instance
CalculateSignalOf(s, df, i) ==
    CASE s.cls = "MACrossStrategy"        -> MACrossCalculateSignal(s, df)
      [] s.cls = "TrendFollowingStrategy" -> TrendFollowingCalculateSignal(s, df, i)
      [] s.cls = "DynamicDCAStrategy"     -> DynamicDCACalculateSignal(s, df, i)

\* the same instance is called a second time on the same frame; the first result is kept
CallAgain ==
    /\ op = "strategy.calculate_signal"
    /\ pc = "returned"
    /\ first = NoValue
    /\ first' = ret
    /\ ret' = CalculateSignalOf(strategy, data, ind)
    /\ pc' = Outcome(ret')
    /\ UNCHANGED <<strategies, op, data, weights, pending, signals, buckets, log, mutations,
                   strategy, ind, now, args, interleaved, db>>

-----------------------------------------------------------------------------
(* Insertion-ordered dict: a sequence of [name, value] entries *)

Entry(name, value) == [name |-> name, value |-> value]
Keys(d) == [i \in 1..Len(d) |-> d[i].name]
KeySet(d) == {d[i].name : i \in 1..Len(d)}
Has(d, name) == name \in KeySet(d)
Get(d, name) == d[CHOOSE i \in 1..Len(d) : d[i].name = name].value
\* d[name] = value: an existing key keeps its position, a new key goes last
Put(d, name, value) ==
    IF Has(d, name)
    THEN [i \in 1..Len(d) |-> IF d[i].name = name THEN Entry(name, value) ELSE d[i]]
    ELSE Append(d, Entry(name, value))
\* del d[name]
Del(d, name) == SelectSeq(d, LAMBDA e : e.name # name)

-----------------------------------------------------------------------------
(* StrategyManager: strategy_manager.py, and settings.STRATEGY_CONFIG of core/config.py *)

StrategyConfig ==
    [ma_cross        |-> [short_period |-> 5, long_period |-> 20, volume_threshold |-> Frac(12, 10)],
     dynamic_dca     |-> [low_percentile |-> 25, high_percentile |-> 75, lookback_days |-> 252],
     trend_following |-> [rsi_oversold |-> 30, rsi_overbought |-> 70,
                          macd_fast |-> 12, macd_slow |-> 26, macd_signal |-> 9]]

\* _initialize_strategies
InitializeStrategies ==
    <<Entry("ma_cross", MACrossStrategy(StrategyConfig.ma_cross)),
      Entry("dynamic_dca", DynamicDCAStrategy(StrategyConfig.dynamic_dca)),
      Entry("trend_following", TrendFollowingStrategy(StrategyConfig.trend_following))>>

\* strategy_class(config) of update_strategy_config
Construct(cls, config) ==
    CASE cls = "MACrossStrategy"        -> MACrossStrategy(config)
      [] cls = "DynamicDCAStrategy"     -> DynamicDCAStrategy(config)
      [] cls = "TrendFollowingStrategy" -> TrendFollowingStrategy(config)

\* strengths of the signals a strategy hands back to the manager
SignalStrengths == {Frac(1, 10), Frac(1, 2)}

\* What strategy.calculate_signal(data) can hand to the manager: the fallback when
\* validation fails; otherwise any constructed signal, or an exception (no strategy
\* catches what its computation raises)
StrategyOutcomes(s, df) ==
    IF ~ValidateData(s, df) THEN {InsufficientData}
    ELSE {StrategySignal(t, x, "computed") : t \in {"BUY", "SELL"}, x \in SignalStrengths}
         \cup {StrategySignal("HOLD", R(0), "computed"), Raised("Exception")}

\* frames handed to the manager: long enough for every default strategy, and long
\* enough for ma_cross only
ManagerFrames == {FlatFrame(60), FlatFrame(29)}

ManagerNames == {"ma_cross", "dynamic_dca", "trend_following", "custom"}

\* strategy_weights arguments of get_consensus_signal: None, {} and three maps
WeightArguments ==
    {NoValue, <<>>,
     [ma_cross |-> R(2), dynamic_dca |-> R(1)],
     [ma_cross |-> R(1), dynamic_dca |-> R(1), trend_following |-> R(3)],
     [ma_cross |-> R(0), dynamic_dca |-> R(-1), trend_following |-> R(0)]}

\* the default weights summing to one: 1/n for each of the n registered strategies
DefaultedWeightsNormalised(w, registry) ==
    IF w = NoValue \/ DOMAIN w = {}
    THEN [n \in KeySet(registry) |-> Frac(1, Len(registry))]
    ELSE w

\* `if not strategy_weights`: None and the empty dict take the default (lines 130-132)
DefaultedWeights(w, registry) ==
    IF w = NoValue \/ DOMAIN w = {}
    THEN [n \in KeySet(registry) |-> R(1)]
    ELSE w

\* a strategy that the weight map does not name counts with the weight 1.0
WeightOfDefaultOne(w, name) == IF name \in DOMAIN w THEN w[name] ELSE R(1)

\* strategy_weights.get(name, 0.0)
WeightOf(w, name) == IF name \in DOMAIN w THEN w[name] ELSE R(0)

EmptyBuckets == [buy |-> R(0), sell |-> R(0), hold |-> R(0), total |-> R(0)]

\* the accumulation with the HOLD bucket fed like the other two, by weight * strength
AccumulateHoldByStrength(b, name, signal, w) ==
    LET weight == WeightOf(w, name)
    IN  IF RLe(weight, R(0)) THEN b
        ELSE IF signal.signal_type = "BUY"
        THEN [b EXCEPT !.total = RAdd(@, weight), !.buy = RAdd(@, RMul(weight, signal.strength))]
        ELSE IF signal.signal_type = "SELL"
        THEN [b EXCEPT !.total = RAdd(@, weight), !.sell = RAdd(@, RMul(weight, signal.strength))]
        ELSE [b EXCEPT !.total = RAdd(@, weight), !.hold = RAdd(@, RMul(weight, signal.strength))]

\* one pass of the accumulation loop (lines 153-167)
Accumulate(b, name, signal, w) ==
    LET weight == WeightOf(w, name)
    IN  IF RLe(weight, R(0)) THEN b
        ELSE IF signal.signal_type = "BUY"
        THEN [b EXCEPT !.total = RAdd(@, weight), !.buy = RAdd(@, RMul(weight, signal.strength))]
        ELSE IF signal.signal_type = "SELL"
        THEN [b EXCEPT !.total = RAdd(@, weight), !.sell = RAdd(@, RMul(weight, signal.strength))]
        ELSE [b EXCEPT !.total = RAdd(@, weight), !.hold = RAdd(@, weight)]

RECURSIVE AccumulateAll(_, _, _)
AccumulateAll(b, all_signals, w) ==
    IF all_signals = <<>> THEN b
    ELSE AccumulateAll(Accumulate(b, all_signals[1].name, all_signals[1].value, w),
                       Tail(all_signals), w)

\* the buckets left as accumulated, not divided by the total weight
NormalizeSkipped(b) == b

\* lines 177-181: buy_weight /= total_weight ...
Normalize(b) ==
    [buy |-> RDiv(b.buy, b.total), sell |-> RDiv(b.sell, b.total),
     hold |-> RDiv(b.hold, b.total), total |-> b.total]

\* the decision without the 0.3 floor: the larger directional bucket wins
ConsensusDecideNoFloor(b) ==
    LET indicators == [buy_weight |-> Round(b.buy, 4), sell_weight |-> Round(b.sell, 4),
                       hold_weight |-> Round(b.hold, 4)]
    IN  IF RGt(b.buy, b.sell)
        THEN StrategySignalWith("BUY", b.buy, "consensus_buy", indicators)
        ELSE IF RGt(b.sell, b.buy)
        THEN StrategySignalWith("SELL", b.sell, "consensus_sell", indicators)
        ELSE StrategySignalWith("HOLD", R(0), "consensus_hold", indicators)

\* lines 186-218: the decision, and the signal with the rounded buckets as indicators
\* (the counts and per-strategy details of the indicators dict are left out)
ConsensusDecide(b) ==
    LET indicators == [buy_weight |-> Round(b.buy, 4), sell_weight |-> Round(b.sell, 4),
                       hold_weight |-> Round(b.hold, 4)]
    IN  IF RGt(b.buy, b.sell) /\ RGt(b.buy, Frac(3, 10))
        THEN StrategySignalWith("BUY", b.buy, "consensus_buy", indicators)
        ELSE IF RGt(b.sell, b.buy) /\ RGt(b.sell, Frac(3, 10))
        THEN StrategySignalWith("SELL", b.sell, "consensus_sell", indicators)
        ELSE StrategySignalWith("HOLD", R(0), "consensus_hold", indicators)

\* the caller takes the result and goes on: the locals of the call are gone
Continue ==
    /\ pc \in {"done", "aborted"}
    /\ pc' = "idle"
    /\ op' = "none"
    /\ data' = NoValue
    /\ weights' = NoValue
    /\ pending' = <<>>
    /\ signals' = <<>>
    /\ buckets' = NoValue
    /\ log' = {}
    /\ ret' = NoValue
    /\ args' = NoValue
    /\ interleaved' = NoValue
    /\ db' = db
    /\ UNCHANGED <<strategies, mutations, strategy, ind, now, first>>

\* the manager as constructed, or with every strategy taken out of the registry by
\* earlier remove_strategy calls
InitManager ==
    /\ strategies \in {InitializeStrategies, <<>>}
    /\ pc = "idle"
    /\ op = "none"
    /\ data = NoValue
    /\ weights = NoValue
    /\ pending = <<>>
    /\ signals = <<>>
    /\ buckets = NoValue
    /\ log = {}
    /\ ret = NoValue
    /\ mutations = 0
    /\ strategy = NoValue
    /\ ind = NoValue
    /\ now = 0
    /\ first = NoValue
    /\ args = NoValue
    /\ interleaved = NoValue
    /\ db = NoValue

\* get_strategy(name): self.strategies.get(name)
GetStrategy(registry, name) == IF Has(registry, name) THEN Get(registry, name) ELSE NoValue

\* get_all_strategies handing out self.strategies itself
GetAllStrategiesNoCopy(registry) == [value |-> registry, is_registry |-> TRUE]

\* get_all_strategies: self.strategies.copy(), a new dict with the entries of the
\* registry; is_registry tells whether the dict handed out is the registry object
GetAllStrategies(registry) == [value |-> registry, is_registry |-> FALSE]

\* get_strategy(name) called on the manager
CallGetStrategy(name) ==
    /\ pc = "idle"
    /\ args' = [name |-> name]
    /\ op' = "get_strategy"
    /\ ret' = GetStrategy(strategies, name)
    /\ data' = NoValue
    /\ pc' = "done"
    /\ UNCHANGED <<strategies, weights, pending, signals, buckets, log, mutations,
                   strategy, ind, now, first, interleaved, db>>

\* get_all_strategies() called on the manager
CallGetAllStrategies ==
    /\ pc = "idle"
    /\ args' = NoValue
    /\ op' = "get_all_strategies"
    /\ ret' = GetAllStrategies(strategies)
    /\ data' = NoValue
    /\ pc' = "done"
    /\ UNCHANGED <<strategies, weights, pending, signals, buckets, log, mutations,
                   strategy, ind, now, first, interleaved, db>>

\* the caller changes the dict it got from get_all_strategies (`changed` is that dict
\* after d[name] = s or del d[name]); the registry changes with it only if it is the
\* same object
MutateReturned(changed) ==
    /\ pc = "done"
    /\ op = "get_all_strategies"
    /\ ret.value = strategies
    /\ changed # ret.value
    /\ ret' = [ret EXCEPT !.value = changed]
    /\ strategies' = IF ret.is_registry THEN changed ELSE strategies
    /\ UNCHANGED <<pc, op, data, weights, pending, signals, buckets, log, mutations,
                   strategy, ind, now, first, args, interleaved, db>>

\* add_strategy(name, strategy)
AddStrategy(name, s) ==
    /\ pc = "idle"
    /\ mutations < MaxMutations
    /\ strategies' = Put(strategies, name, s)
    /\ args' = [name |-> name, strategy |-> s]
    /\ op' = "add_strategy"
    /\ ret' = NoValue
    /\ data' = NoValue
    /\ mutations' = mutations + 1
    /\ pc' = "done"
    /\ UNCHANGED <<weights, pending, signals, buckets, log, strategy, ind, now, first, interleaved, db>>

\* remove_strategy(name)
RemoveStrategy(name) ==
    /\ pc = "idle"
    /\ mutations < MaxMutations
    /\ strategies' = IF Has(strategies, name) THEN Del(strategies, name) ELSE strategies
    /\ args' = [name |-> name]
    /\ op' = "remove_strategy"
    /\ ret' = [value |-> Has(strategies, name)]
    /\ data' = NoValue
    /\ mutations' = mutations + 1
    /\ pc' = "done"
    /\ UNCHANGED <<weights, pending, signals, buckets, log, strategy, ind, now, first, interleaved, db>>

\* update_strategy_config without the membership test of lines 256-257: an
\* unregistered name raises KeyError at type(self.strategies[name])
UpdateStrategyConfigUnchecked(name, config) ==
    /\ pc = "idle"
    /\ mutations < MaxMutations
    /\ strategies' = IF Has(strategies, name)
                     THEN Put(strategies, name, [cls |-> Get(strategies, name).cls,
                              name |-> Get(strategies, name).name,
                              config |-> config @@ Get(strategies, name).config])
                     ELSE strategies
    /\ args' = [name |-> name, config |-> config]
    /\ op' = "update_strategy_config"
    /\ ret' = IF Has(strategies, name) THEN [value |-> TRUE] ELSE [raised |-> "KeyError"]
    /\ data' = NoValue
    /\ mutations' = mutations + 1
    /\ pc' = IF Has(strategies, name) THEN "done" ELSE "aborted"
    /\ UNCHANGED <<weights, pending, signals, buckets, log, strategy, ind, now, first, interleaved, db>>

\* update_strategy_config updating the configuration of the registered instance in
\* place: what the instance was constructed with stays unless the new config names it
UpdateStrategyConfigInPlace(name, config) ==
    /\ pc = "idle"
    /\ mutations < MaxMutations
    /\ strategies' = IF Has(strategies, name)
                     THEN Put(strategies, name,
                              [Get(strategies, name) EXCEPT !.config = Update(@, config)])
                     ELSE strategies
    /\ args' = [name |-> name, config |-> config]
    /\ op' = "update_strategy_config"
    /\ ret' = [value |-> Has(strategies, name)]
    /\ data' = NoValue
    /\ mutations' = mutations + 1
    /\ pc' = "done"
    /\ UNCHANGED <<weights, pending, signals, buckets, log, strategy, ind, now, first, interleaved, db>>

\* update_strategy_config(name, config)
UpdateStrategyConfig(name, config) ==
    /\ pc = "idle"
    /\ mutations < MaxMutations
    /\ strategies' = IF Has(strategies, name)
                     THEN Put(strategies, name, Construct(Get(strategies, name).cls, config))
                     ELSE strategies
    /\ args' = [name |-> name, config |-> config]
    /\ op' = "update_strategy_config"
    /\ ret' = [value |-> Has(strategies, name)]
    /\ data' = NoValue
    /\ mutations' = mutations + 1
    /\ pc' = "done"
    /\ UNCHANGED <<weights, pending, signals, buckets, log, strategy, ind, now, first, interleaved, db>>

\* StrategyManager.calculate_signal indexing the registry without get_strategy and the
\* test of lines 68-69: an unregistered name raises KeyError
ManagerCalculateSignalUnchecked(name, df) ==
    /\ pc = "idle"
    /\ args' = [strategy_name |-> name]
    /\ op' = "calculate_signal"
    /\ data' = df
    /\ ret' \in IF ~Has(strategies, name) THEN {[raised |-> "KeyError"]}
               ELSE {[none |-> TRUE]}
    /\ pc' = IF ~Has(strategies, name) THEN "aborted" ELSE "done"
    /\ UNCHANGED <<strategies, weights, pending, signals, buckets, log, mutations, strategy, ind, now, first, interleaved, db>>

\* StrategyManager.calculate_signal(strategy_name, data)
ManagerCalculateSignal(name, df) ==
    /\ pc = "idle"
    /\ args' = [strategy_name |-> name]
    /\ op' = "calculate_signal"
    /\ data' = df
    /\ ret' \in IF ~Has(strategies, name) THEN {NoValue}
               ELSE StrategyOutcomes(Get(strategies, name), df)
    /\ pc' = IF IsRaised(ret') THEN "aborted" ELSE "done"
    /\ UNCHANGED <<strategies, weights, pending, signals, buckets, log, mutations, strategy, ind, now, first, interleaved, db>>

\* calculate_all_signals(data): signals = {} and the for loop is entered
StartCalculateAllSignals(df) ==
    /\ pc = "idle"
    /\ args' = NoValue
    /\ op' = "calculate_all_signals"
    /\ pc' = "iterating"
    /\ data' = df
    /\ pending' = Keys(strategies)
    /\ UNCHANGED <<strategies, weights, signals, buckets, log, ret, mutations, strategy, ind, now, first, interleaved, db>>

\* get_consensus_signal(data, strategy_weights): the weights are defaulted, then
\* calculate_all_signals(data) is entered
StartGetConsensusSignal(df, w) ==
    /\ pc = "idle"
    /\ args' = [strategy_weights |-> w]
    /\ op' = "get_consensus_signal"
    /\ pc' = "iterating"
    /\ data' = df
    /\ weights' = DefaultedWeights(w, strategies)
    /\ pending' = Keys(strategies)
    /\ UNCHANGED <<strategies, signals, buckets, log, ret, mutations, strategy, ind, now, first, interleaved, db>>

\* the try branch of the loop body: signals[name] = signal
OnSignal(name, signal) ==
    /\ signals' = Put(signals, name, signal)
    /\ UNCHANGED <<log, pc, ret>>

\* the loop body without its try/except: the exception leaves calculate_all_signals
OnExceptionPropagates(name) ==
    /\ pc' = "aborted"
    /\ ret' = Raised("Exception")
    /\ UNCHANGED <<signals, log>>

\* the except branch of the loop body: the failure is printed, the loop continues
OnException(name) ==
    /\ log' = log \cup {name}
    /\ UNCHANGED <<signals, pc, ret>>

\* the check of the dict iterator at every next(): the size of the dict is the size
\* it had when the iterator was created (visited and still to visit)
IteratorValid == Len(strategies) = Len(signals) + Cardinality(log) + Len(pending)

\* one turn of `for name, strategy in self.strategies.items()` (lines 83-92)
IterateStrategy ==
    /\ pc = "iterating"
    /\ pending # <<>>
    /\ IteratorValid
    /\ LET name == Head(pending)
       IN  \E o \in StrategyOutcomes(Get(strategies, name), data) :
               IF IsRaised(o) THEN OnException(name) ELSE OnSignal(name, o)
    /\ pending' = Tail(pending)
    /\ UNCHANGED <<strategies, op, data, weights, buckets, mutations, strategy, ind, now, first, args, interleaved, db>>

\* return signals (line 94)
ReturnAllSignals ==
    /\ pc = "iterating"
    /\ IteratorValid
    /\ op = "calculate_all_signals"
    /\ pending = <<>>
    /\ ret' = signals
    /\ pc' = "done"
    /\ UNCHANGED <<strategies, op, data, weights, pending, signals, buckets, log, mutations,
                   strategy, ind, now, first, args, interleaved, db>>

\* get_consensus_signal after calculate_all_signals returned (lines 137-218)
ReturnConsensusSignal ==
    /\ pc = "iterating"
    /\ IteratorValid
    /\ op = "get_consensus_signal"
    /\ pending = <<>>
    /\ LET b == AccumulateAll(EmptyBuckets, signals, weights)
       IN  IF signals = <<>>
           THEN /\ ret' = StrategySignal("HOLD", R(0), "no_signals")
                /\ buckets' = NoValue
           ELSE IF b.total = R(0)
           THEN /\ ret' = StrategySignal("HOLD", R(0), "all_weights_zero")
                /\ buckets' = b
           ELSE /\ ret' = ConsensusDecide(Normalize(b))
                /\ buckets' = Normalize(b)
    /\ pc' = "done"
    /\ UNCHANGED <<strategies, op, data, weights, pending, signals, log, mutations,
                   strategy, ind, now, first, args, interleaved, db>>

\* next() on the iterator of a dict whose size changed: RuntimeError("dictionary
\* changed size during iteration"), raised by the for statement outside the try
IterationFails ==
    /\ pc = "iterating"
    /\ ~IteratorValid
    /\ ret' = Raised("RuntimeError")
    /\ pc' = "aborted"
    /\ UNCHANGED <<strategies, op, data, weights, pending, signals, buckets, log, mutations,
                   strategy, ind, now, first, args, interleaved, db>>

\* A second thread mutates the registry while the first is inside the for loop of
\* calculate_all_signals; `registry` is self.strategies after the mutation.  One
\* mutation per call in flight.
Interleave(operation, name, registry) ==
    /\ pc = "iterating"
    /\ interleaved = NoValue
    /\ mutations < MaxMutations
    /\ strategies' = registry
    /\ interleaved' = [op |-> operation, name |-> name, before |-> strategies]
    /\ db' = db
    /\ mutations' = mutations + 1
    /\ UNCHANGED <<pc, op, data, weights, pending, signals, buckets, log, ret,
                   strategy, ind, now, first, args>>

\* add_strategy(name, strategy) on the second thread
InterleavedAddStrategy(name, s) ==
    Interleave("add_strategy", name, Put(strategies, name, s))

\* remove_strategy(name) on the second thread
InterleavedRemoveStrategy(name) ==
    Interleave("remove_strategy", name,
               IF Has(strategies, name) THEN Del(strategies, name) ELSE strategies)

\* update_strategy_config(name, config) on the second thread
InterleavedUpdateStrategyConfig(name, config) ==
    Interleave("update_strategy_config", name,
               IF Has(strategies, name)
               THEN Put(strategies, name, Construct(Get(strategies, name).cls, config))
               ELSE strategies)

Init == InitManager \/ InitMACross \/ InitTrendFollowing \/ InitDynamicDCA

Next ==
    \/ \E n \in {"custom", "ma_cross"} : AddStrategy(n, TrendFollowingStrategy(<<>>))
    \/ \E n \in ManagerNames : RemoveStrategy(n)
    \/ \E n \in ManagerNames :
           UpdateStrategyConfig(n, [min_data_points |-> 40])
    \/ \E n \in ManagerNames, df \in ManagerFrames : ManagerCalculateSignal(n, df)
    \/ \E df \in ManagerFrames : StartCalculateAllSignals(df)
    \/ \E df \in ManagerFrames, w \in WeightArguments : StartGetConsensusSignal(df, w)
    \/ IterateStrategy
    \/ ReturnAllSignals
    \/ ReturnConsensusSignal
    \/ Continue
    \/ CallMACross
    \/ CallTrendFollowing
    \/ CallDynamicDCA

Spec == Init /\ [][Next]_vars

\* a strategy called directly, and called again on the same frame after the clock
\* may have moved
InitRepeatedCall == InitMACross \/ InitTrendFollowing \/ InitDynamicDCA

NextRepeatedCall ==
    \/ CallMACross
    \/ CallTrendFollowing
    \/ CallDynamicDCA
    \/ Tick
    \/ CallAgain

SpecRepeatedCall == InitRepeatedCall /\ [][NextRepeatedCall]_vars

\* the manager shared by two threads: the operations of Next, and the registry
\* mutations of a second thread while a batch call is in flight
NextThreads ==
    \/ Next
    \/ \E n \in {"custom", "ma_cross"} : InterleavedAddStrategy(n, TrendFollowingStrategy(<<>>))
    \/ \E n \in ManagerNames : InterleavedRemoveStrategy(n)
    \/ \E n \in ManagerNames : InterleavedUpdateStrategyConfig(n, [min_data_points |-> 40])
    \/ IterationFails

SpecThreads == Init /\ [][NextThreads]_vars

\* The registry operations alone, on registries that hold overrides.
\* strategy arguments of add_strategy: a default instance, and one with an override
AddedStrategies == {TrendFollowingStrategy(<<>>), MACrossStrategy([short_period |-> 10])}

\* config arguments of update_strategy_config
ConfigArguments == {[min_data_points |-> 40], [short_period |-> 3]}

\* the registry as constructed, and as an earlier add_strategy("custom", ...) left it
Registries ==
    {InitializeStrategies} \cup {Put(InitializeStrategies, "custom", s) : s \in AddedStrategies}

InitRegistry ==
    /\ strategies \in Registries
    /\ pc = "idle"
    /\ op = "none"
    /\ data = NoValue
    /\ ret = NoValue
    /\ strategy = NoValue
    /\ ind = NoValue
    /\ weights = NoValue
    /\ pending = <<>>
    /\ signals = <<>>
    /\ buckets = NoValue
    /\ log = {}
    /\ mutations = 0
    /\ now = 0
    /\ first = NoValue
    /\ args = NoValue
    /\ interleaved = NoValue
    /\ db = NoValue

NextRegistry ==
    \/ \E n \in {"custom", "ma_cross"}, s \in AddedStrategies : AddStrategy(n, s)
    \/ \E n \in ManagerNames : RemoveStrategy(n)
    \/ \E n \in ManagerNames, c \in ConfigArguments : UpdateStrategyConfig(n, c)
    \/ \E n \in ManagerNames, df \in ManagerFrames : ManagerCalculateSignal(n, df)
    \/ \E n \in ManagerNames : CallGetStrategy(n)
    \/ CallGetAllStrategies
    \/ \E n \in ManagerNames, s \in AddedStrategies : MutateReturned(Put(ret.value, n, s))
    \/ \E n \in ManagerNames : MutateReturned(Del(ret.value, n))
    \/ Continue

SpecRegistry == InitRegistry /\ [][NextRegistry]_vars

\* The indicator functions of BaseStrategy, and the price percentile of DynamicDCA,
\* applied to a series of values: args holds the series and the period.
Periods == {1, 2, 3}

InitIndicators ==
    /\ \E n \in 0..MaxLen : \E values \in [1..n -> Prices], k \in Periods :
           args = [data |-> values, period |-> k]
    /\ pc = "ready"
    /\ op = "none"
    /\ strategies = <<>>
    /\ data = NoValue
    /\ ret = NoValue
    /\ strategy = NoValue
    /\ ind = NoValue
    /\ weights = NoValue
    /\ pending = <<>>
    /\ signals = <<>>
    /\ buckets = NoValue
    /\ log = {}
    /\ mutations = 0
    /\ now = 0
    /\ first = NoValue
    /\ interleaved = NoValue
    /\ db = NoValue

\* the function is applied and returns
Apply(function, result) ==
    /\ pc = "ready"
    /\ op = "none"
    /\ op' = function
    /\ ret' = result
    /\ pc' = "returned"
    /\ UNCHANGED <<strategies, data, weights, pending, signals, buckets, log, mutations,
                   strategy, ind, now, first, args, interleaved, db>>

CallCalculateMovingAverage ==
    Apply("calculate_moving_average", CalculateMovingAverage(args.data, args.period))

CallCalculateRsi ==
    Apply("calculate_rsi", CalculateRsi(args.data, args.period))

CallCalculatePercentileRank ==
    Apply("calculate_percentile_rank", CalculatePercentileRank(args.data, args.period))

\* _calculate_price_percentile on a frame with these net values and lookback_days = period
CallCalculatePricePercentile ==
    /\ args.data # <<>>
    /\ Apply("_calculate_price_percentile",
             CalculatePricePercentile([lookback_days |-> args.period], args.data))

NextIndicators ==
    \/ CallCalculateMovingAverage
    \/ CallCalculateRsi
    \/ CallCalculatePercentileRank
    \/ CallCalculatePricePercentile

SpecIndicators == InitIndicators /\ [][NextIndicators]_vars

-----------------------------------------------------------------------------
(* The portfolio service (services/portfolio_service.py) on the funds and holdings tables *)

\* most rows the holdings table starts with
MaxHoldings == 2

\* None where a number or a string may stand instead: an optional field of a request
\* body or a nullable column holds None, a float or, for an integer or a string v, <<v>>
None == <<>>

\* attributes of the Holding mapping (models/fund.py:69-85): the columns and the two
\* relationships; there is no avg_cost among them
HoldingAttributes ==
    {"id", "user_id", "fund_id", "shares", "cost_price", "purchase_date",
     "created_at", "updated_at", "fund", "user"}

\* columns of the holdings table declared nullable=False that no default fills
HoldingRequired == {"user_id", "fund_id", "shares", "cost_price", "purchase_date"}

\* Holding(**kwargs): the declarative constructor takes attributes of the mapped class
\* only and raises TypeError for any other keyword
Holding(kwargs) ==
    IF DOMAIN kwargs \subseteq HoldingAttributes THEN kwargs ELSE Raised("TypeError")

HTTPException(status_code) ==
    Raised(CASE status_code = 400 -> "HTTP_400_BAD_REQUEST"
             [] status_code = 404 -> "HTTP_404_NOT_FOUND"
             [] status_code = 409 -> "HTTP_409_CONFLICT")
IsHTTPException(x) ==
    IsRaised(x) /\ x.raised \in {"HTTP_400_BAD_REQUEST", "HTTP_404_NOT_FOUND", "HTTP_409_CONFLICT"}

\* db.get(Model, id) and the select by code: the row with that key, or None
GetById(table, id) ==
    IF \E i \in 1..Len(table) : table[i].id = id
    THEN table[CHOOSE i \in 1..Len(table) : table[i].id = id]
    ELSE NoValue
GetByCode(table, code) ==
    IF \E i \in 1..Len(table) : table[i].code = code
    THEN table[CHOOSE i \in 1..Len(table) : table[i].code = code]
    ELSE NoValue

\* PortfolioService._resolve_fund
ResolveFund(database, fund_id, fund_code) ==
    IF fund_id # None
    THEN IF GetById(database.funds, fund_id[1]) = NoValue
         THEN HTTPException(404)
         ELSE GetById(database.funds, fund_id[1])
    ELSE IF fund_code # None
         THEN IF GetByCode(database.funds, fund_code[1]) = NoValue
              THEN HTTPException(404)
              ELSE GetByCode(database.funds, fund_code[1])
         ELSE HTTPException(400)

\* HoldingCreatePayload.resolved_avg_cost: float(self.avg_cost or self.cost)
ResolvedAvgCostOnCreate(payload) ==
    IF payload.avg_cost # None THEN payload.avg_cost ELSE payload.cost
\* HoldingUpdatePayload.resolved_avg_cost
ResolvedAvgCostOnUpdate(payload) ==
    IF payload.avg_cost # None THEN payload.avg_cost
    ELSE IF payload.cost # None THEN payload.cost
    ELSE None

\* the Holding instances a query of the session yields, ordered by id, each with its
\* fund joined: mapped attributes come from the row; attributes that were set on an
\* instance the session still holds and that the mapping does not know (unmapped)
\* stay on that instance and are never written to the table
Instances(database, held) ==
    [i \in 1..Len(database.holdings) |->
        LET row  == database.holdings[i]
            fund == [fund |-> GetById(database.funds, row.fund_id)]
        IN  IF held # NoValue /\ held.id = row.id
            THEN held.unmapped @@ row @@ fund
            ELSE row @@ fund]

\* sum(...) of Python floats, left to right from 0
RECURSIVE Sum(_)
Sum(floats) ==
    IF floats = <<>> THEN R(0)
    ELSE RAdd(Sum(SubSeq(floats, 1, Len(floats) - 1)), floats[Len(floats)])

\* PortfolioService._build_holding_payload; reading holding.avg_cost of an instance
\* without that attribute raises AttributeError
BuildHoldingPayload(holding) ==
    IF holding.fund = NoValue THEN HTTPException(409)
    ELSE IF "avg_cost" \notin DOMAIN holding THEN Raised("AttributeError")
    ELSE
    LET fund          == holding.fund
        current_value == IF fund.current_nav # None THEN fund.current_nav
                         ELSE holding.avg_cost
        shares        == holding.shares
        avg_cost      == holding.avg_cost
        market_value  == RMul(current_value, shares)
        cost_basis    == RMul(avg_cost, shares)
        total_return  == RSub(market_value, cost_basis)
        day_return_percent == IF fund.daily_return # None THEN fund.daily_return ELSE R(0)
    IN  [id |-> holding.id,
         fund_id |-> fund.id,
         fund_code |-> fund.code,
         shares |-> shares,
         avg_cost |-> avg_cost,
         current_value |-> current_value,
         market_value |-> market_value,
         total_return |-> total_return,
         total_return_percent |->
             IF cost_basis # R(0) THEN RMul(RDiv(total_return, cost_basis), R(100)) ELSE R(0),
         day_return |->
             IF day_return_percent # R(0)
             THEN RDiv(RMul(market_value, day_return_percent), R(100)) ELSE R(0),
         day_return_percent |-> day_return_percent,
         weight |-> R(0)]

EmptySummary ==
    [total_assets |-> R(0), total_cost |-> R(0), total_return |-> R(0),
     total_return_percent |-> R(0), day_return |-> R(0), day_return_percent |-> R(0)]

\* PortfolioService.get_portfolio on the instances the query yields
GetPortfolio(holdings) ==
    IF holdings = <<>> THEN [summary |-> EmptySummary, holdings |-> <<>>]
    ELSE
    LET serialized == [i \in 1..Len(holdings) |-> BuildHoldingPayload(holdings[i])]
        failed     == {i \in 1..Len(holdings) : IsRaised(serialized[i])}
    IN  IF failed # {}
        THEN serialized[CHOOSE i \in failed : \A j \in failed : i <= j]
        ELSE
        LET total_assets == Sum([i \in 1..Len(holdings) |-> serialized[i].market_value])
            total_cost   == Sum([i \in 1..Len(holdings) |->
                                    RMul(holdings[i].avg_cost, holdings[i].shares)])
            total_return == RSub(total_assets, total_cost)
            day_return_total == Sum([i \in 1..Len(holdings) |-> serialized[i].day_return])
        IN  [summary |->
                [total_assets |-> total_assets,
                 total_cost |-> total_cost,
                 total_return |-> total_return,
                 total_return_percent |->
                     IF total_cost # R(0)
                     THEN RMul(RDiv(total_return, total_cost), R(100)) ELSE R(0),
                 day_return |-> day_return_total,
                 day_return_percent |->
                     IF total_assets # R(0)
                     THEN RMul(RDiv(day_return_total, total_assets), R(100)) ELSE R(0)],
             holdings |->
                [i \in 1..Len(holdings) |->
                    [serialized[i] EXCEPT !.weight =
                        IF total_assets # R(0)
                        THEN RMul(RDiv(serialized[i].market_value, total_assets), R(100))
                        ELSE R(0)]]]

\* db.add(holding); db.commit() of a new instance: the INSERT fails on a NOT NULL
\* column left without a value; the new id is the next after the largest
Insert(database, holding) ==
    IF ~(HoldingRequired \subseteq DOMAIN holding) THEN Raised("IntegrityError")
    ELSE LET ids == {database.holdings[i].id : i \in 1..Len(database.holdings)}
             id  == IF ids = {} THEN 1 ELSE (CHOOSE m \in ids : \A k \in ids : k <= m) + 1
         IN  [database EXCEPT !.holdings = Append(@, [id |-> id] @@ holding)]

\* PortfolioService.create_holding: what it returns or raises, and the database it leaves
CreateHolding(database, payload) ==
    LET fund    == ResolveFund(database, payload.fund_id, payload.fund_code)
        holding == Holding([fund_id |-> fund.id,
                            shares |-> payload.shares,
                            avg_cost |-> ResolvedAvgCostOnCreate(payload),
                            purchase_date |-> "utcnow"])
    IN  IF IsRaised(fund) THEN [db |-> database, ret |-> fund]
        ELSE IF IsRaised(holding) THEN [db |-> database, ret |-> holding]
        ELSE IF IsRaised(Insert(database, holding))
             THEN [db |-> database, ret |-> Insert(database, holding)]
        ELSE [db |-> Insert(database, holding),
              ret |-> GetPortfolio(Instances(Insert(database, holding), NoValue))]

\* PortfolioService.update_holding: shares is a column and is written by the commit;
\* avg_cost is no attribute of the mapping, so the assignment only sets it on the
\* instance in hand, which get_portfolio then meets again in the same session
UpdateHolding(database, holding_id, payload) ==
    IF GetById(database.holdings, holding_id) = NoValue
    THEN [db |-> database, ret |-> HTTPException(404)]
    ELSE
    LET resolved_cost == ResolvedAvgCostOnUpdate(payload)
        written == [database EXCEPT !.holdings =
                       [i \in 1..Len(@) |->
                           IF @[i].id = holding_id /\ payload.shares # None
                           THEN [@[i] EXCEPT !.shares = payload.shares]
                           ELSE @[i]]]
        held == [id |-> holding_id,
                 unmapped |-> IF resolved_cost # None
                              THEN [avg_cost |-> resolved_cost] ELSE <<>>]
    IN  [db |-> written, ret |-> GetPortfolio(Instances(written, held))]

\* PortfolioService.delete_holding
DeleteHolding(database, holding_id) ==
    IF GetById(database.holdings, holding_id) = NoValue
    THEN [db |-> database, ret |-> HTTPException(404)]
    ELSE
    LET left == [database EXCEPT !.holdings =
                    SelectSeq(@, LAMBDA row : row.id # holding_id)]
    IN  [db |-> left, ret |-> GetPortfolio(Instances(left, NoValue))]

\* the funds table: the one fund the API test stores, with or without a NAV and a
\* daily return
Funds ==
    { <<[id |-> 1, code |-> "000001", current_nav |-> nav, daily_return |-> daily]>> :
        nav \in {None, Frac(3, 2)}, daily \in {None, Frac(1, 4)} }

\* rows of the holdings table as the mapping declares them
HoldingRows ==
    [user_id : {1}, fund_id : {1}, shares : {R(1000), R(2000)}, cost_price : {Frac(6, 5)},
     purchase_date : {"2024-01-01"}]
HoldingTables ==
    UNION { { [i \in 1..n |-> [id |-> i] @@ rows[i]] : rows \in [1..n -> HoldingRows] } :
            n \in 0..MaxHoldings }

\* request bodies that pass the validators of schemas/portfolio.py
CreatePayloads ==
    { p \in [fund_id : {None, <<1>>, <<2>>}, fund_code : {None, <<"000001">>},
             shares : {R(1000)}, avg_cost : {None, Frac(5, 4)}, cost : {None, Frac(6, 5)}] :
        /\ p.fund_id # None \/ p.fund_code # None
        /\ p.avg_cost # None \/ p.cost # None }
UpdatePayloads ==
    { p \in [shares : {None, R(2000)}, avg_cost : {None}, cost : {None, Frac(5, 4)}] :
        p.shares # None \/ p.cost # None }
HoldingIds == 1..(MaxHoldings + 1)

InitPortfolio ==
    /\ pc = "idle"
    /\ op = "none"
    /\ strategies = <<>>
    /\ data = NoValue
    /\ weights = NoValue
    /\ pending = <<>>
    /\ signals = <<>>
    /\ buckets = NoValue
    /\ log = {}
    /\ ret = NoValue
    /\ mutations = 0
    /\ strategy = NoValue
    /\ ind = NoValue
    /\ now = 0
    /\ first = NoValue
    /\ args = NoValue
    /\ interleaved = NoValue
    /\ \E funds \in Funds, holdings \in HoldingTables :
          db = [funds |-> funds, holdings |-> holdings]

\* one request to an endpoint of api/v1/endpoints/portfolio.py, served to its end
Request(operation, arguments, outcome) ==
    /\ db # NoValue
    /\ op' = operation
    /\ args' = arguments
    /\ ret' = outcome.ret
    /\ db' = outcome.db
    /\ UNCHANGED <<strategies, pc, data, weights, pending, signals, buckets, log, mutations,
                   strategy, ind, now, first, interleaved>>

RequestGetPortfolio ==
    Request("get_portfolio", NoValue, [db |-> db, ret |-> GetPortfolio(Instances(db, NoValue))])
RequestCreateHolding ==
    \E payload \in CreatePayloads :
        Request("create_holding", [payload |-> payload], CreateHolding(db, payload))
RequestUpdateHolding ==
    \E holding_id \in HoldingIds, payload \in UpdatePayloads :
        Request("update_holding", [holding_id |-> holding_id, payload |-> payload],
                UpdateHolding(db, holding_id, payload))
RequestDeleteHolding ==
    \E holding_id \in HoldingIds :
        Request("delete_holding", [holding_id |-> holding_id], DeleteHolding(db, holding_id))

NextPortfolio ==
    \/ RequestGetPortfolio
    \/ RequestCreateHolding
    \/ RequestUpdateHolding
    \/ RequestDeleteHolding

SpecPortfolio == InitPortfolio /\ [][NextPortfolio]_vars

-----------------------------------------------------------------------------
(* Properties *)

\* a direct strategy.calculate_signal(data) call that has come back
DirectCall == op = "strategy.calculate_signal"
DirectReturned == DirectCall /\ pc = "returned"

\* the series handed to the call is unusable: empty, a required column missing,
\* or fewer rows than the strategy's min_data_points
UnusableSeries ==
    \/ Len(data.rows) = 0
    \/ "date" \notin data.columns
    \/ "net_value" \notin data.columns
    \/ Len(data.rows) < strategy.config.min_data_points

InUnitInterval(x) == RGe(x, R(0)) /\ RLe(x, R(1))

\* C1: for every strategy and every series that is empty, lacks 'date' or
\* 'net_value', or has fewer rows than min_data_points, calculate_signal does
\* not raise and returns HOLD with strength 0.0.
C1_UnusableSeriesHolds ==
    (DirectCall /\ pc # "ready" /\ UnusableSeries)
        => /\ pc = "returned"
           /\ ret.signal_type = "HOLD"
           /\ ret.strength = R(0)

\* C1 happens: a TrendFollowing call came back on a series with both columns,
\* at least one row and one row fewer than min_data_points
C1_Witness ==
    /\ DirectReturned
    /\ strategy.cls = "TrendFollowingStrategy"
    /\ {"date", "net_value"} \subseteq data.columns
    /\ Len(data.rows) = strategy.config.min_data_points - 1
    /\ ret.signal_type = "HOLD"

\* every StrategySignal in existence: the result of a direct call, the entries
\* collected by calculate_all_signals, the result of the manager's
\* calculate_signal and the consensus signal
SignalsInExistence ==
    (IF DirectReturned THEN {ret} ELSE {})
    \cup {signals[i].value : i \in 1..Len(signals)}
    \cup (IF op \in {"calculate_signal", "get_consensus_signal"} /\ pc = "done" /\ IsSignal(ret)
          THEN {ret} ELSE {})

\* C2: every StrategySignal constructed, by a strategy or by the consensus
\* step, carries a strength within [0.0, 1.0].
C2_StrengthInUnitInterval ==
    \A sig \in SignalsInExistence :
        sig.signal_type \in SignalType /\ InUnitInterval(sig.strength)

\* C2 happens: a golden cross whose strength formula is negative before the
\* constructor (falling volume, no trend support) came back with strength 0
C2_Witness ==
    /\ DirectReturned
    /\ strategy.cls = "MACrossStrategy"
    /\ ret.reason = "golden_cross"
    /\ ret.strength = R(0)
    /\ RLt(VolumeFactor(data, SortValuesByDate(data.rows)), R(1))

\* C3: calculate_all_signals never aborts: when a strategy raises, the call
\* still returns normally, the result has no entry for the failing strategy
\* and has an entry for every strategy that did not fail.
C3_BatchNeverAborts ==
    op = "calculate_all_signals"
        => /\ pc # "aborted"
           /\ pc = "done" =>
                 /\ KeySet(ret) = KeySet(strategies) \ log
                 /\ \A i \in 1..Len(ret) : IsSignal(ret[i].value)

\* C3 happens: the batch returned after one strategy raised and another did not
C3_Witness ==
    /\ op = "calculate_all_signals"
    /\ pc = "done"
    /\ log # {}
    /\ Len(ret) > 0
    /\ KeySet(ret) \cap log = {}

\* C4: a strategy's calculate_signal does not raise for a series that passed
\* validation: a failure of the internal computation is caught inside the
\* strategy and turned into HOLD with strength 0.0.
C4_ValidSeriesNeverRaises ==
    (DirectCall /\ pc # "ready" /\ ~UnusableSeries)
        => /\ pc = "returned"
           /\ (strategy.cls = "MACrossStrategy"
               /\ ~(RollingWindowOk(strategy.config.short_period)
                    /\ RollingWindowOk(strategy.config.long_period)))
                  => (ret.signal_type = "HOLD" /\ ret.strength = R(0))

\* the consensus step went through normalisation: some result had a positive weight
ConsensusNormalised ==
    /\ op = "get_consensus_signal"
    /\ pc = "done"
    /\ signals # <<>>
    /\ RGt(buckets.total, R(0))

\* three equally weighted results: BUY at 0.5, SELL at 0.1 and HOLD
ThreeWayExample ==
    /\ Len(signals) = 3
    /\ \A i \in 1..3 : WeightOf(weights, signals[i].name) = R(1)
    /\ \E i, j, k \in 1..3 :
           /\ signals[i].value.signal_type = "BUY" /\ signals[i].value.strength = Frac(1, 2)
           /\ signals[j].value.signal_type = "SELL" /\ signals[j].value.strength = Frac(1, 10)
           /\ signals[k].value.signal_type = "HOLD"

\* C5: the consensus is BUY only if the normalised BUY bucket exceeds the SELL
\* bucket and exceeds 0.3, SELL only if the SELL bucket exceeds the BUY bucket
\* and exceeds 0.3, HOLD in every other case; three equally weighted strategies
\* returning BUY at 0.5, SELL at 0.1 and HOLD yield HOLD.
C5_ConsensusRule ==
    /\ ConsensusNormalised =>
           LET buy  == buckets.buy
               sell == buckets.sell
           IN  /\ ret.signal_type = "BUY"  <=> (RGt(buy, sell) /\ RGt(buy, Frac(3, 10)))
               /\ ret.signal_type = "SELL" <=> (RGt(sell, buy) /\ RGt(sell, Frac(3, 10)))
               /\ ret.signal_type = "HOLD" <=>
                      ~(RGt(buy, sell) /\ RGt(buy, Frac(3, 10)))
                      /\ ~(RGt(sell, buy) /\ RGt(sell, Frac(3, 10)))
    /\ (ConsensusNormalised /\ ThreeWayExample) => ret.signal_type = "HOLD"

\* C5 happens: the consensus of BUY at 0.5, SELL at 0.1 and HOLD, equally
\* weighted, was taken; the BUY bucket is the larger one and is below 0.3
C5_Witness ==
    /\ ConsensusNormalised
    /\ ThreeWayExample
    /\ RGt(buckets.buy, buckets.sell)
    /\ ret.signal_type = "HOLD"

\* the results that the consensus accumulates: those with a positive weight
Accumulated == {i \in 1..Len(signals) : RGt(WeightOf(weights, signals[i].name), R(0))}

\* the sum of f over a finite set of indices
RECURSIVE SumOver(_, _)
SumOver(S, f) ==
    IF S = {} THEN R(0)
    ELSE LET i == CHOOSE j \in S : TRUE
         IN  RAdd(f[i], SumOver(S \ {i}, f))

\* C6: each accumulated result adds weight x strength to the BUY bucket if its
\* type is BUY, weight x strength to the SELL bucket if SELL and its bare weight
\* to the HOLD bucket if HOLD; the three buckets are then divided by the total
\* weight of the accumulated results.
C6_BucketAccumulation ==
    ConsensusNormalised =>
        LET w == [i \in 1..Len(signals) |-> WeightOf(weights, signals[i].name)]
            of(type) == {i \in Accumulated : signals[i].value.signal_type = type}
            ws == [i \in 1..Len(signals) |-> RMul(w[i], signals[i].value.strength)]
            total == SumOver(Accumulated, w)
        IN  /\ buckets.total = total
            /\ buckets.buy  = RDiv(SumOver(of("BUY"), ws), total)
            /\ buckets.sell = RDiv(SumOver(of("SELL"), ws), total)
            /\ buckets.hold = RDiv(SumOver(of("HOLD"), w), total)

\* C6 happens: a consensus over unequal weights in which all three buckets are
\* fed and one result is left out for want of a weight
C6_Witness ==
    /\ ConsensusNormalised
    /\ RGt(buckets.buy, R(0))
    /\ RGt(buckets.sell, R(0))
    /\ RGt(buckets.hold, R(0))
    /\ buckets.total = R(5)
    /\ Cardinality(Accumulated) < Len(signals)

\* the three sub-signals and the trend strength of a TrendFollowing call on a
\* validated series
TrendFollowingReturned ==
    DirectReturned /\ strategy.cls = "TrendFollowingStrategy" /\ ~UnusableSeries
SubSignals ==
    LET sub == TrendFollowingSubSignals(strategy, ind) IN <<sub.rsi, sub.macd, sub.bb>>
TrendStrength == TrendFollowingSubSignals(strategy, ind).trend_strength
SubSignalsOf(type) == {i \in 1..3 : SubSignals[i].type = type}
\* the summed and the mean strength of the sub-signals of a type
OwnStrength(type) == SumOver(SubSignalsOf(type), [i \in 1..3 |-> SubSignals[i].strength])
MeanStrength(type) == RDiv(OwnStrength(type), R(Cardinality(SubSignalsOf(type))))
\* the trend boost: 1.2 on BUY when trend strength > 0.3, on SELL when < -0.3
Boost(type) ==
    IF type = "BUY" /\ RGt(TrendStrength, Frac(3, 10)) THEN Frac(12, 10)
    ELSE IF type = "SELL" /\ RLt(TrendStrength, Frac(-3, 10)) THEN Frac(12, 10)
    ELSE R(1)
\* at least two sub-signals of the type, or exactly one whose own strength,
\* before the boost, exceeds 0.6
RuleOnOwnStrength(type) ==
    \/ Cardinality(SubSignalsOf(type)) >= 2
    \/ Cardinality(SubSignalsOf(type)) = 1 /\ RGt(OwnStrength(type), Frac(6, 10))
\* the same with the boost applied before the comparison against 0.6
RuleOnBoostedStrength(type) ==
    \/ Cardinality(SubSignalsOf(type)) >= 2
    \/ /\ Cardinality(SubSignalsOf(type)) = 1
       /\ RGt(RMul(OwnStrength(type), Boost(type)), Frac(6, 10))
BoostedMean(type) == RMin(RMul(MeanStrength(type), Boost(type)), R(1))

\* C7 as stated: TrendFollowing emits BUY exactly when at least two of the
\* three sub-signals are BUY, or exactly one is BUY and its own strength before
\* any trend boost exceeds 0.6; the strength is the mean BUY strength, times
\* 1.2 when trend strength > 0.3, capped at 1.0.
C7_BuyOnOwnStrength ==
    TrendFollowingReturned =>
        /\ ret.signal_type = "BUY" <=> RuleOnOwnStrength("BUY")
        /\ ret.signal_type = "BUY" => ret.strength = BoostedMean("BUY")

\* C7 amended: TrendFollowing emits BUY exactly when at least two of the three
\* sub-signals are BUY, or exactly one is BUY and its strength after the trend
\* boost (times 1.2 when trend strength > 0.3) exceeds 0.6; the strength is
\* the mean BUY strength, times 1.2 when trend strength > 0.3, capped at 1.0.
C7_BuyOnBoostedStrength ==
    TrendFollowingReturned =>
        /\ ret.signal_type = "BUY" <=> RuleOnBoostedStrength("BUY")
        /\ ret.signal_type = "BUY" => ret.strength = BoostedMean("BUY")

\* C7 happens: a single BUY sub-signal of own strength at most 0.6 is lifted
\* over 0.6 by the trend boost, and the strategy emits BUY
C7_Witness ==
    /\ TrendFollowingReturned
    /\ Cardinality(SubSignalsOf("BUY")) = 1
    /\ RLe(OwnStrength("BUY"), Frac(6, 10))
    /\ RGt(TrendStrength, Frac(3, 10))
    /\ ret.signal_type = "BUY"
    /\ ret.strength = RMul(OwnStrength("BUY"), Frac(12, 10))

\* C8: whenever at least two of the three sub-signals are SELL, or exactly one
\* is SELL with own strength > 0.6, TrendFollowing emits SELL; in every
\* remaining case in which the BUY rule does not fire either it emits HOLD with
\* strength 0.
C8_SellRuleSymmetric ==
    TrendFollowingReturned =>
        /\ RuleOnOwnStrength("SELL") => ret.signal_type = "SELL"
        /\ (~RuleOnOwnStrength("SELL") /\ ~RuleOnOwnStrength("BUY"))
               => (ret.signal_type = "HOLD" /\ ret.strength = R(0))

\* the averages of a MACross call on a validated series, from the NAV values in
\* date order; MeanUpTo is the mean of the last `period` values up to point k
MACrossReturned ==
    DirectReturned /\ strategy.cls = "MACrossStrategy" /\ ~UnusableSeries
ValuesByDate == NetValues(SortValuesByDate(data.rows))
MeanUpTo(values, k, period) ==
    LET lo == IF k - period + 1 < 1 THEN 1 ELSE k - period + 1
    IN  Frac(SumSeq(SubSeq(values, lo, k)), k - lo + 1)
\* short and long average at the second-to-last and at the last point
Averages ==
    LET values == ValuesByDate
        last == Len(values)
    IN  [prev_short |-> MeanUpTo(values, last - 1, strategy.config.short_period),
         prev_long  |-> MeanUpTo(values, last - 1, strategy.config.long_period),
         short      |-> MeanUpTo(values, last, strategy.config.short_period),
         long       |-> MeanUpTo(values, last, strategy.config.long_period)]
UpwardCross(a) == RLe(a.prev_short, a.prev_long) /\ RGt(a.short, a.long)
DownwardCross(a) == RGe(a.prev_short, a.prev_long) /\ RLt(a.short, a.long)
CrossedUp == UpwardCross(Averages)
CrossedDown == DownwardCross(Averages)

\* C9: on a valid series whose short average is at or below the long average
\* at the second-to-last point and above it at the last point, MACross returns
\* BUY; on one whose short average is at or above the long average at the
\* second-to-last point and below it at the last point, it returns SELL.
C9_CrossDirection ==
    MACrossReturned =>
        LET a == Averages
        IN  /\ UpwardCross(a) => ret.signal_type = "BUY"
            /\ DownwardCross(a) => ret.signal_type = "SELL"

\* C9 happens: a death cross on the last point of a series handed over in
\* descending date order came back as SELL
C9_Witness ==
    /\ MACrossReturned
    /\ CrossedDown
    /\ data.rows[1].date > data.rows[2].date
    /\ ret.signal_type = "SELL"

\* the strength formula of a cross: min(|gap %| / 2, 0.8) + (volume_factor - 1) x 0.2
\* + max(+-trend, 0) x 0.3, the trend taken with the sign of the cross
CrossFormula(a, dir) ==
    LET gap_percent == RMul(RDiv(RSub(a.short, a.long), a.long), R(100))
        volume_factor == VolumeFactor(data, SortValuesByDate(data.rows))
        trend == CalculatePriceTrend(ValuesByDate)
    IN  RAdd(RAdd(RMin(RDiv(RAbs(gap_percent), R(2)), Frac(8, 10)),
                  RMul(RSub(volume_factor, R(1)), Frac(2, 10))),
             RMul(RMax(RMul(R(dir), trend), R(0)), Frac(3, 10)))
\* the direction of the cross on the last point: 1 upward, -1 downward, 0 none
CrossDirection(a) == IF UpwardCross(a) THEN 1 ELSE IF DownwardCross(a) THEN -1 ELSE 0
CrossType(dir) == IF dir = 1 THEN "BUY" ELSE "SELL"

\* C10 as stated: every upward cross yields BUY (every downward cross SELL)
\* with a strength greater than 0.2, the strength being the formula capped at 1.0.
C10_CrossStrengthAboveFifth ==
    MACrossReturned =>
        LET a == Averages
            dir == CrossDirection(a)
            formula == CrossFormula(a, dir)
        IN  dir # 0 => /\ ret.signal_type = CrossType(dir)
                       /\ RGt(ret.strength, Frac(2, 10))
                       /\ ret.strength = RMin(formula, R(1))

\* C10 amended: every upward cross yields BUY (every downward cross SELL) with
\* a strength equal to the formula capped at 1.0 and floored at 0.0; the
\* strength exceeds 0.2 exactly when the formula does.
C10_CrossStrengthFormula ==
    MACrossReturned =>
        LET a == Averages
            dir == CrossDirection(a)
            formula == CrossFormula(a, dir)
        IN  dir # 0 => /\ ret.signal_type = CrossType(dir)
                       /\ ret.strength = RMax(R(0), RMin(formula, R(1)))
                       /\ RGt(ret.strength, Frac(2, 10)) <=> RGt(formula, Frac(2, 10))

\* C10 happens: an upward cross with a small gap, level volume and a weak trend
\* came back as BUY with a strength above 0 and below 0.2
C10_Witness ==
    /\ MACrossReturned
    /\ CrossedUp
    /\ ret.signal_type = "BUY"
    /\ RGt(ret.strength, R(0))
    /\ RLt(ret.strength, Frac(2, 10))

\* a DynamicDCA call on a validated series, and the composite percentile, market
\* sentiment and trend factor it worked with
DynamicDCAReturned ==
    DirectReturned /\ strategy.cls = "DynamicDCAStrategy" /\ ~UnusableSeries
Valuation == DynamicDCAInputs(strategy, data, ind)
\* the sentiment and trend boosts of the two outer zones: pessimism and a falling
\* trend add to a BUY, optimism and a rising trend to a SELL
Boosts(v, dir) ==
    RAdd(RMul(RMax(RMul(R(dir), v.market_sentiment), R(0)), Frac(2, 10)),
         RMul(RMax(RMul(R(dir), v.trend_factor), R(0)), Frac(1, 10)))

\* C11: DynamicDCA returns BUY whenever the composite percentile is <=
\* low_percentile, with strength min(1, (low - composite)/low x 0.8 + 0.2 + boosts),
\* and SELL whenever it is >= high_percentile, with strength
\* min(1, (composite - high)/(100 - high) x 0.8 + 0.2 + boosts); in both zones the
\* strength is at least 0.2.
C11_OuterZones ==
    DynamicDCAReturned =>
        LET v == Valuation
            c == v.composite_percentile
            low == R(strategy.config.low_percentile)
            high == R(strategy.config.high_percentile)
        IN  /\ RLe(c, low) =>
                   /\ ret.signal_type = "BUY"
                   /\ ret.strength =
                          RMin(R(1), RAdd(RAdd(RMul(RDiv(RSub(low, c), low), Frac(8, 10)),
                                               Frac(2, 10)), Boosts(v, -1)))
                   /\ RGe(ret.strength, Frac(2, 10))
            /\ RGe(c, high) =>
                   /\ ret.signal_type = "SELL"
                   /\ ret.strength =
                          RMin(R(1), RAdd(RAdd(RMul(RDiv(RSub(c, high), RSub(R(100), high)),
                                                    Frac(8, 10)), Frac(2, 10)), Boosts(v, 1)))
                   /\ RGe(ret.strength, Frac(2, 10))

\* C11 happens: a composite percentile exactly on low_percentile, without boosts,
\* came back as BUY with strength exactly 0.2
C11_Witness ==
    /\ DynamicDCAReturned
    /\ Valuation.composite_percentile = R(strategy.config.low_percentile)
    /\ ret.signal_type = "BUY"
    /\ ret.strength = Frac(2, 10)

\* C12: with the composite percentile strictly between low_percentile and
\* high_percentile, DynamicDCA gives BUY below the midpoint and SELL at or above
\* it, with strength 0.5 x the distance from the midpoint over the half width of
\* the zone; a strength below 0.2 gives HOLD with strength 0 instead. No BUY or
\* SELL of DynamicDCA has a strength below 0.2.
C12_NeutralZone ==
    DynamicDCAReturned =>
        LET c == Valuation.composite_percentile
            low == R(strategy.config.low_percentile)
            high == R(strategy.config.high_percentile)
            mid == RDiv(RAdd(low, high), R(2))
            scaled == RMul(RDiv(RAbs(RSub(c, mid)), RSub(mid, low)), Frac(1, 2))
        IN  /\ (RGt(c, low) /\ RLt(c, high)) =>
                   IF RLt(scaled, Frac(2, 10))
                   THEN ret.signal_type = "HOLD" /\ ret.strength = R(0)
                   ELSE /\ ret.signal_type = (IF RLt(c, mid) THEN "BUY" ELSE "SELL")
                        /\ ret.strength = scaled
            /\ ret.signal_type \in {"BUY", "SELL"} => RGe(ret.strength, Frac(2, 10))

\* C12 happens: a composite percentile in the neutral zone whose scaled distance
\* from the midpoint is below 0.2 came back as HOLD
C12_Witness ==
    /\ DynamicDCAReturned
    /\ RGt(Valuation.composite_percentile, R(strategy.config.low_percentile))
    /\ RLt(Valuation.composite_percentile, R(50))
    /\ RGt(Valuation.composite_percentile, R(40))
    /\ ret.signal_type = "HOLD"

\* the series of the call is strictly increasing / strictly decreasing in date order
StrictlyIncreasing == \A j \in 1..(Len(data.rows) - 1) : ValuesByDate[j] < ValuesByDate[j + 1]
StrictlyDecreasing == \A j \in 1..(Len(data.rows) - 1) : ValuesByDate[j] > ValuesByDate[j + 1]

\* C13: for every strictly increasing series of 300 points DynamicDCA (default
\* configuration) computes a composite percentile near 100 (90 or more) at the
\* final point and returns SELL; for every strictly decreasing series of 300
\* points it returns BUY.
C13_MonotoneSeries ==
    (DynamicDCAReturned /\ Len(data.rows) = 300) =>
        /\ StrictlyIncreasing =>
               /\ RGe(Valuation.composite_percentile, R(90))
               /\ ret.signal_type = "SELL"
        /\ StrictlyDecreasing => ret.signal_type = "BUY"

\* the same strategy instance has been called twice on the same frame
CalledTwice == DirectReturned /\ first # NoValue

BatchCall == op \in {"calculate_all_signals", "get_consensus_signal"}
InterleavedCall == BatchCall /\ interleaved # NoValue
\* the results collected, and the default weight map, are those of the registry `reg`
CorrespondsTo(reg) ==
    /\ KeySet(signals) \cup log = KeySet(reg)
    /\ \A i \in 1..Len(signals) :
           signals[i].value \in StrategyOutcomes(Get(reg, signals[i].name), data)
    /\ (op = "get_consensus_signal" /\ weights = DefaultedWeights(NoValue, interleaved.before))
           => DOMAIN weights = KeySet(reg)

\* C15: a batch call during which add_strategy, remove_strategy or
\* update_strategy_config ran on another thread completes without error, and its
\* results and default weight map are those of the registry at one single instant,
\* before or after the mutation
C15_ConsistentSnapshot ==
    InterleavedCall =>
        /\ pc # "aborted"
        /\ pc = "done" => (CorrespondsTo(interleaved.before) \/ CorrespondsTo(strategies))

\* the default configuration of a strategy class
ClassDefaults(cls) ==
    CASE cls = "MACrossStrategy"        -> MACrossDefaultConfig
      [] cls = "DynamicDCAStrategy"     -> DynamicDCADefaultConfig
      [] cls = "TrendFollowingStrategy" -> TrendFollowingDefaultConfig
\* every key of the defaults and of the overrides, the overrides taking precedence
Overridden(defaults, overrides) ==
    [k \in DOMAIN defaults \cup DOMAIN overrides |->
        IF k \in DOMAIN overrides THEN overrides[k] ELSE defaults[k]]

\* C16: update_strategy_config(name, config) with a registered name returns True and
\* replaces only that slot, in place, with a fresh instance of the same class whose
\* configuration is the class defaults overridden by the new config (nothing of the
\* previous instance's overrides is carried over); every other entry is unchanged.
C16_UpdateReplacesOneSlot ==
    [][(pc = "idle" /\ op' = "update_strategy_config" /\ Has(strategies, args'.name)) =>
          LET name == args'.name
              previous == Get(strategies, name)
              fresh == Get(strategies', name)
          IN  /\ pc' = "done"
              /\ ret' = [value |-> TRUE]
              /\ Keys(strategies') = Keys(strategies)
              /\ \A n \in KeySet(strategies) \ {name} : Get(strategies', n) = Get(strategies, n)
              /\ fresh.cls = previous.cls
              /\ fresh.name = previous.name
              /\ fresh.config = Overridden(ClassDefaults(previous.cls), args'.config)]_vars

\* C16 happens: "custom", which can only have been registered by add_strategy with
\* short_period overridden to 10, was updated with min_data_points 40 and now has the
\* class default short_period again
C16_Witness ==
    /\ op = "update_strategy_config"
    /\ pc = "done"
    /\ args.name = "custom"
    /\ args.config = [min_data_points |-> 40]
    /\ ret = [value |-> TRUE]
    /\ Get(strategies, "custom").cls = "MACrossStrategy"
    /\ Get(strategies, "custom").config.short_period = 5
    /\ Get(strategies, "custom").config.min_data_points = 40

\* C17: update_strategy_config(name, config) with a name that is not registered
\* returns False, raises nothing and leaves the registry as it was.
C17_UpdateUnknownName ==
    [][(pc = "idle" /\ op' = "update_strategy_config" /\ ~Has(strategies, args'.name)) =>
          /\ pc' = "done"
          /\ ret' = [value |-> FALSE]
          /\ strategies' = strategies]_vars

\* C17 happens: update_strategy_config("custom", ...) came back False on the registry
\* as constructed, which has no "custom"
C17_Witness ==
    /\ op = "update_strategy_config"
    /\ pc = "done"
    /\ args.name = "custom"
    /\ ret = [value |-> FALSE]
    /\ strategies = InitializeStrategies

\* a calculate_all_signals call that returned has an entry for every registered
\* strategy that did not raise
BatchComplete ==
    (op = "calculate_all_signals" /\ pc = "done")
        => /\ KeySet(ret) \cup log = KeySet(strategies)
           /\ KeySet(ret) \cap log = {}

\* C18: StrategyManager.calculate_signal(name, series) leaves the registry as it was and,
\* when the name is not registered, returns None without raising; every
\* calculate_all_signals call, those after such a miss included, returns a result for
\* every registered strategy that did not fail.
C18_UnknownNameReturnsNone ==
    /\ [][(pc = "idle" /\ op' = "calculate_signal") =>
             /\ strategies' = strategies
             /\ ~Has(strategies, args'.strategy_name) => (pc' = "done" /\ ret' = NoValue)]_vars
    /\ []BatchComplete

\* C18 happens: calculate_signal("custom", series) came back None on the registry as
\* constructed
C18_Witness ==
    /\ op = "calculate_signal"
    /\ pc = "done"
    /\ args.strategy_name = "custom"
    /\ ret = NoValue
    /\ strategies = InitializeStrategies

\* a get_consensus_signal call made without a weight map
WithoutWeights ==
    /\ op = "get_consensus_signal"
    /\ pc \in {"iterating", "done"}
    /\ args.strategy_weights = NoValue
\* the results of a type among those collected
ResultsOf(type) == {i \in 1..Len(signals) : signals[i].value.signal_type = type}
Strengths == [i \in 1..Len(signals) |-> signals[i].value.strength]

\* C19: get_consensus_signal called without a weight map gives every registered
\* strategy the weight 1.0, so the consensus is the equal-weight aggregation over all
\* the strategies that produced a result: each bucket is the sum over the results of
\* its type (strengths for BUY and SELL, the count for HOLD) divided by the number of
\* results.
C19_DefaultEqualWeights ==
    WithoutWeights =>
        /\ weights = [n \in KeySet(strategies) |-> R(1)]
        /\ (pc = "done" /\ signals # <<>>) =>
               /\ buckets.total = R(Len(signals))
               /\ buckets.buy  = RDiv(SumOver(ResultsOf("BUY"), Strengths), R(Len(signals)))
               /\ buckets.sell = RDiv(SumOver(ResultsOf("SELL"), Strengths), R(Len(signals)))
               /\ buckets.hold = Frac(Cardinality(ResultsOf("HOLD")), Len(signals))
               /\ ret = ConsensusDecide(buckets)

\* C19 happens: a consensus without a weight map over three registered strategies of
\* which one raised, one returned BUY and one SELL
C19_Witness ==
    /\ WithoutWeights
    /\ pc = "done"
    /\ Len(strategies) = 3
    /\ Cardinality(log) = 1
    /\ Len(signals) = 2
    /\ ResultsOf("BUY") # {}
    /\ ResultsOf("SELL") # {}
    /\ buckets.total = R(2)

\* the gap between the short and the long average at the last point, in percent of
\* the long average
GapPercent(a) == RMul(RDiv(RSub(a.short, a.long), a.long), R(100))

\* C20: when the last point of a valid series is no cross, MACross returns BUY if the
\* short average is more than 1% above the long average and SELL if it is more than 1%
\* below it, with strength min(|gap %| / 5, 0.6); with a gap of at most 1% it returns
\* HOLD with strength 0.
C20_NoCrossPersistence ==
    MACrossReturned =>
        LET a == Averages
            gap == GapPercent(a)
        IN  CrossDirection(a) = 0 =>
                IF RGt(RAbs(gap), R(1))
                THEN /\ ret.signal_type = (IF RGt(a.short, a.long) THEN "BUY" ELSE "SELL")
                     /\ ret.strength = RMin(RDiv(RAbs(gap), R(5)), Frac(6, 10))
                ELSE /\ ret.signal_type = "HOLD"
                     /\ ret.strength = R(0)

\* C20 happens: a series falling by several percent a point, without a cross on its
\* last point and with the short average more than 3% below the long one, came back
\* as SELL with the strength capped at 0.6
C20_Witness ==
    /\ MACrossReturned
    /\ CrossDirection(Averages) = 0
    /\ RLt(GapPercent(Averages), R(-3))
    /\ ret.signal_type = "SELL"
    /\ ret.strength = Frac(6, 10)

\* a step of a signal computation: a direct strategy call, or a step of the manager's
\* calculate_signal, calculate_all_signals or get_consensus_signal
SignalOperations == {"calculate_signal", "calculate_all_signals", "get_consensus_signal"}
ComputationEntered == pc = "idle" /\ op' \in SignalOperations
ComputationStep == pc \in {"ready", "iterating"}

\* C21: signal computation is free of side effects: calculate_signal,
\* calculate_all_signals and get_consensus_signal leave the registry (names, classes and
\* configurations, in their order) unchanged, and the series handed to a call keeps its
\* rows, in their order, from the entry of the call to its return.
C21_SideEffectFree ==
    [][/\ ComputationEntered => (strategies' = strategies /\ strategy' = strategy)
       /\ ComputationStep =>
              (strategies' = strategies /\ strategy' = strategy /\ data' = data)]_vars

\* C21 happens: a MACross call that found a golden cross came back with the frame it
\* was given still in descending date order
C21_Witness ==
    /\ MACrossReturned
    /\ data.rows[1].date > data.rows[2].date
    /\ ret.indicators.golden_cross

\* an indicator function has returned; its series, and the window of `period` points
\* ending at point i
Returned(function) == op = function /\ pc = "returned"
Window(i) ==
    SubSeq(args.data, IF i - args.period + 1 < 1 THEN 1 ELSE i - args.period + 1, i)
\* the window ending at i is full and holds no fall of the price: its average loss
\* is zero
ZeroAverageLoss(i) ==
    /\ i >= args.period
    /\ \A j \in (i - args.period + 1)..i : j > 1 => args.data[j] >= args.data[j - 1]

\* C22: at every index where the average loss over the RSI window is zero,
\* calculate_rsi yields 100 and never NaN, a window without any price change included.
C22_RsiZeroLossIsHundred ==
    Returned("calculate_rsi") =>
        \A i \in 1..Len(args.data) : ZeroAverageLoss(i) => ret[i] = Num(R(100))

\* in the window ending at point i: the number of values strictly below the value at
\* i, and the number of other values equal to it
Lower(i) == Cardinality({j \in 1..Len(Window(i)) : Window(i)[j] < args.data[i]})
Ties(i) == Cardinality({j \in 1..Len(Window(i)) : Window(i)[j] = args.data[i]}) - 1

C24_TrailingMean ==
    Returned("calculate_moving_average") =>
        /\ Len(ret) = Len(args.data)
        /\ \A i \in 1..Len(args.data) :
               LET k == IF i < args.period THEN i ELSE args.period
               IN  /\ IsRational(ret[i])
                   /\ RMul(ret[i], R(k)) = R(SumSeq(SubSeq(args.data, i - k + 1, i)))
                   /\ ret[i] = CalculateMovingAverage(SubSeq(args.data, 1, i), args.period)[i]

\* C24 happens: a moving average over 3 points of a series of 5 or more points that
\* does not stay level, so that partial and full windows both occur
C24_Witness ==
    /\ Returned("calculate_moving_average")
    /\ args.period = 3
    /\ Len(args.data) >= 5
    /\ ret[2] # ret[1]
    /\ ret[Len(ret)] # ret[Len(ret) - 1]

\* a request to the portfolio endpoints that has been served
PortfolioRequest == op \in {"get_portfolio", "create_holding", "update_holding", "delete_holding"}
IsPortfolio(x) == DOMAIN x = {"summary", "holdings"}
\* the stored cost and the current NAV of a holding of the table; a fund without a NAV
\* is valued at the holding's cost, as the service does
CostOf(row) == row.cost_price
NavOf(row) ==
    LET fund == GetById(db.funds, row.fund_id)
    IN  IF fund.current_nav # None THEN fund.current_nav ELSE CostOf(row)

\* C25: a request to the portfolio endpoints that is not refused with an HTTP error
\* returns the portfolio of the holdings now in the table: one entry per holding,
\* total_cost the sum of shares x cost, total_assets the sum of shares x NAV,
\* total_return their difference, weights that sum to 100 when total_assets > 0, and
\* the all-zero summary with no holdings when the table is empty; a created holding
\* is in the table.
C25_PortfolioReflectsHoldings ==
    (PortfolioRequest /\ ~IsHTTPException(ret)) =>
        LET rows == db.holdings
            cost == Sum([i \in 1..Len(rows) |-> RMul(rows[i].shares, CostOf(rows[i]))])
            assets == Sum([i \in 1..Len(rows) |-> RMul(rows[i].shares, NavOf(rows[i]))])
        IN  /\ IsPortfolio(ret)
            /\ Len(ret.holdings) = Len(rows)
            /\ ret.summary.total_cost = cost
            /\ ret.summary.total_assets = assets
            /\ ret.summary.total_return = RSub(assets, cost)
            /\ RGt(assets, R(0)) =>
                   Sum([i \in 1..Len(rows) |-> ret.holdings[i].weight]) = R(100)
            /\ rows = <<>> => (ret.summary = EmptySummary /\ ret.holdings = <<>>)
            /\ op = "create_holding" => rows # <<>>

\* C26: after normalisation each of the three consensus buckets lies in [0, 1] and
\* together they are at most 1; a BUY consensus has the BUY bucket as its strength and
\* a SELL consensus the SELL bucket, the value as computed, above 0.3 and at most 1.
C26_BucketsInUnitInterval ==
    ConsensusNormalised =>
        /\ InUnitInterval(buckets.buy)
        /\ InUnitInterval(buckets.sell)
        /\ InUnitInterval(buckets.hold)
        /\ RLe(RAdd(RAdd(buckets.buy, buckets.sell), buckets.hold), R(1))
        /\ ret.signal_type = "BUY" =>
               (ret.strength = buckets.buy /\ RGt(buckets.buy, Frac(3, 10)) /\ RLe(buckets.buy, R(1)))
        /\ ret.signal_type = "SELL" =>
               (ret.strength = buckets.sell /\ RGt(buckets.sell, Frac(3, 10)) /\ RLe(buckets.sell, R(1)))

\* C26 happens: a BUY consensus under unequal weights, with something in the HOLD
\* bucket and the three buckets together below 1
C26_Witness ==
    /\ ConsensusNormalised
    /\ ret.signal_type = "BUY"
    /\ \E m, n \in DOMAIN weights : RGt(weights[m], weights[n]) /\ RGt(weights[n], R(0))
    /\ RGt(buckets.hold, R(0))
    /\ RLt(RAdd(RAdd(buckets.buy, buckets.sell), buckets.hold), R(1))

\* a get_consensus_signal call with a non-empty weight map that has come back with
\* results to aggregate
WithWeights ==
    /\ op = "get_consensus_signal"
    /\ pc = "done"
    /\ signals # <<>>
    /\ args.strategy_weights # NoValue
    /\ DOMAIN args.strategy_weights # {}
\* the results whose strategy the map names with a positive weight
Counted ==
    SelectSeq(signals, LAMBDA s : /\ s.name \in DOMAIN args.strategy_weights
                                  /\ RGt(args.strategy_weights[s.name], R(0)))

\* C27: under a non-empty weight map the results of strategies that the map does not
\* name or names with a weight of zero or less add to no bucket and not to the total
\* weight: the consensus is the one of the remaining results alone; when no result
\* remains the call returns HOLD with strength 0.0 and divides by nothing.
C27_UnweightedExcluded ==
    WithWeights =>
        LET b == AccumulateAll(EmptyBuckets, Counted, args.strategy_weights)
        IN  IF Counted = <<>>
            THEN /\ buckets = EmptyBuckets
                 /\ IsSignal(ret)
                 /\ ret.signal_type = "HOLD"
                 /\ ret.strength = R(0)
            ELSE /\ RGt(b.total, R(0))
                 /\ buckets.total = b.total
                 /\ buckets.buy = RDiv(b.buy, b.total)
                 /\ buckets.sell = RDiv(b.sell, b.total)
                 /\ buckets.hold = RDiv(b.hold, b.total)
                 /\ ret = ConsensusDecide(buckets)

\* C27 happens: the consensus was taken under a map that does not name a strategy
\* whose result is a BUY or a SELL
C27_Witness ==
    /\ WithWeights
    /\ Counted # <<>>
    /\ \E i \in 1..Len(signals) :
           /\ signals[i].name \notin DOMAIN args.strategy_weights
           /\ signals[i].value.signal_type # "HOLD"
           /\ RGt(signals[i].value.strength, R(0))

\* a get_consensus_signal call that has come to its end
ConsensusCall == op = "get_consensus_signal" /\ pc \in {"done", "aborted"}

\* C28: a strategy that raised during the batch has no part in the consensus: no
\* result, nothing in a bucket and nothing in the total weight, which is that of the
\* strategies that produced a result; when every strategy raised or none is
\* registered the call returns HOLD with strength 0.0 and raises nothing.
C28_FailedExcluded ==
    ConsensusCall =>
        LET produced == {n \in KeySet(strategies) \ log : RGt(WeightOf(weights, n), R(0))}
            w == [i \in 1..Len(signals) |-> WeightOf(weights, signals[i].name)]
        IN  /\ pc = "done"
            /\ IsSignal(ret)
            /\ KeySet(signals) = KeySet(strategies) \ log
            /\ signals # <<>> =>
                   buckets.total = SumOver({i \in 1..Len(signals) : signals[i].name \in produced}, w)
            /\ (produced = {} \/ log = KeySet(strategies)) =>
                   (ret.signal_type = "HOLD" /\ ret.strength = R(0))
            /\ log = KeySet(strategies) => (signals = <<>> /\ buckets = NoValue)

\* C28 happens: every registered strategy raised and the consensus came back
C28_Witness ==
    /\ ConsensusCall
    /\ Cardinality(log) = 3
    /\ log = KeySet(strategies)
    /\ ret = StrategySignal("HOLD", R(0), "no_signals")

\* C29: every HOLD signal in existence, returned by a strategy on any of its branches
\* or by the consensus step, has strength exactly 0.0; a signal of positive strength is
\* a BUY or a SELL.
C29_HoldHasNoStrength ==
    \A sig \in SignalsInExistence :
        /\ sig.signal_type = "HOLD" => sig.strength = R(0)
        /\ RGt(sig.strength, R(0)) => sig.signal_type \in {"BUY", "SELL"}

\* C29 happens: DynamicDCA found a weak signal of positive strength in the neutral
\* zone and returned HOLD for it
C29_Witness ==
    /\ DynamicDCAReturned
    /\ ret.signal_type = "HOLD"
    /\ ret.reason = "valuation_neutral"
    /\ RGt(GenerateSignalNoOverride(strategy.config, Valuation.composite_percentile,
                                    Valuation.market_sentiment, Valuation.trend_factor)[2], R(0))

\* no name occurs twice among the keys of the registry
KeysUnique(registry) == Cardinality(KeySet(registry)) = Len(registry)
\* every entry but the one of `name` is what it was
OthersUnchanged(name) ==
    \A n \in ManagerNames \ {name} : GetStrategy(strategies', n) = GetStrategy(strategies, n)

\* C30: add_strategy(name, s) makes get_strategy(name) return s, in place of an entry
\* the name had, and changes no other entry; remove_strategy(name) returns True
\* exactly when the name was registered, after it get_strategy(name) is None and every
\* other entry is unchanged; the keys of the registry stay unique; a change made to
\* the dict that get_all_strategies returned leaves the registry as it was.
C30_RegistryMutationsLocal ==
    [][/\ (pc = "idle" /\ op' = "add_strategy") =>
              /\ GetStrategy(strategies', args'.name) = args'.strategy
              /\ OthersUnchanged(args'.name)
              /\ KeysUnique(strategies')
       /\ (pc = "idle" /\ op' = "remove_strategy") =>
              /\ ret' = [value |-> Has(strategies, args'.name)]
              /\ GetStrategy(strategies', args'.name) = NoValue
              /\ OthersUnchanged(args'.name)
              /\ KeysUnique(strategies')
       /\ (pc = "idle" /\ op' = "get_all_strategies") =>
              (ret'.value = strategies /\ strategies' = strategies)
       /\ (pc = "done" /\ op = "get_all_strategies" /\ pc' = "done") =>
              strategies' = strategies]_vars

\* C30 happens: add_strategy("ma_cross", ...) had put a strategy of another class in
\* the place of the ma_cross entry, get_all_strategies returned the registry's entries,
\* and the caller deleted that entry from the dict it got
C30_Witness ==
    /\ op = "get_all_strategies"
    /\ pc = "done"
    /\ Len(strategies) = 3
    /\ Has(strategies, "ma_cross")
    /\ GetStrategy(strategies, "ma_cross").cls = "TrendFollowingStrategy"
    /\ ~Has(ret.value, "ma_cross")
    /\ Len(ret.value) = 2

=============================================================================
